---- MODULE Spec2Model ----
(***************************************************************************)
(* A model of the BattleBucks purchase engine (PurchasesService) and of   *)
(* account creation (UsersService.create).                                *)
(*                                                                         *)
(* The database holds the committed rows.  A createPurchase request runs  *)
(* as a sequence of steps, one per database round trip that other         *)
(* requests can interleave with: the duplicate check and the validation,  *)
(* the balance pre-check, and, inside prisma.$transaction, the ownership  *)
(* check, the wallet decrement (which takes the wallet's row lock until   *)
(* the transaction ends) and the remaining writes with the commit.  The   *)
(* writes of an open transaction are invisible to every other request     *)
(* until the commit, so they are kept in the request (newBalance) and     *)
(* applied to the tables by the commit step.  The database is MySQL      *)
(* (InnoDB): an UPDATE works on the latest committed row under its row    *)
(* lock, and an INSERT is checked against the table's unique keys.        *)
(*                                                                         *)
(* retryPurchase runs as two round trips outside any transaction; the     *)
(* fulfillments it retries are reported FAILED by the external delivery   *)
(* worker.  CharacterProfilesService.equipItem runs in one transaction    *)
(* (the checks, two deleteMany calls and the create); unequipItem and     *)
(* unequipSlot look the row up and delete it by id without a transaction. *)
(***************************************************************************)
EXTENDS Integers, Sequences, FiniteSets, TLC

VARIABLES
    now,            \* wall clock, in minutes
    registered,     \* the users that exist (each has one wallet)
    balance,        \* UserWallet.balance, per user
    walletTx,       \* WalletTransaction rows, in creation order
    purchases,      \* Purchase rows, in creation order
    purchaseItems,  \* PurchaseItem rows
    inventory,      \* UserInventory rows
    fulfillments,   \* ItemFulfillment rows
    req,            \* the createPurchase requests in flight
    retry,          \* the retryPurchase requests in flight
    profiles,       \* CharacterProfile rows
    equipped,       \* CharacterEquippedItem rows
    nextId,         \* the ids handed out so far, per table
    equip,          \* the requests on profiles and equipped items in flight
    use             \* the useItem requests in flight

vars == <<now, registered, balance, walletTx, purchases, purchaseItems,
          inventory, fulfillments, req, retry, profiles, equipped, nextId,
          equip, use>>

\* The character tables and the requests on them.
characters == <<profiles, equipped, nextId, equip>>

db == <<registered, balance, walletTx, purchases, purchaseItems,
        inventory, fulfillments>>

----------------------------------------------------------------------------
(* Bounds *)

MaxOrders == 2
MaxOrdersSeq == 1
MaxTime == 6
MaxAttempts == 2
MaxProfiles == 3
MaxEquips == 3

Users == {"u1", "u2"}
Reqs == {"r1", "r2"}
RetryReqs == {"t1", "t2"}
EquipReqs == {"e1", "e2"}

\* The users that buy in the specifications below.
Buyers == {"u1"}

----------------------------------------------------------------------------
(* Program constants *)

StartingGems == 1000
DuplicateWindow == 5
MaxQuantity == 100

----------------------------------------------------------------------------
(* The catalog (StoreItem rows).  "ghost" is an id with no row; gameId ""
   is a platform-wide item.  *)

StoreItems ==
    [ sword   |-> [type |-> "NON_CONSUMABLE", deliveryType |-> "IN_GAME",
                   gameId |-> "g1", category |-> "SKIN",
                   price |-> 500, isActive |-> TRUE,
                   gemAmount |-> 0, instant |-> FALSE],
      potion  |-> [type |-> "CONSUMABLE", deliveryType |-> "IN_GAME",
                   gameId |-> "g1", category |-> "CONSUMABLE",
                   price |-> 500, isActive |-> TRUE,
                   gemAmount |-> 0, instant |-> FALSE],
      gempack |-> [type |-> "CONSUMABLE", deliveryType |-> "FUNCTIONAL",
                   gameId |-> "", category |-> "DIGITAL_REWARD",
                   price |-> 0, isActive |-> TRUE,
                   gemAmount |-> 1000, instant |-> TRUE],
      card    |-> [type |-> "CONSUMABLE", deliveryType |-> "EMAIL",
                   gameId |-> "", category |-> "DIGITAL_REWARD",
                   price |-> 300, isActive |-> TRUE,
                   gemAmount |-> 0, instant |-> FALSE],
      shirt   |-> [type |-> "NON_CONSUMABLE", deliveryType |-> "SHOPIFY",
                   gameId |-> "", category |-> "PHYSICAL_MERCH",
                   price |-> 500, isActive |-> TRUE,
                   gemAmount |-> 0, instant |-> FALSE],
      retired |-> [type |-> "CONSUMABLE", deliveryType |-> "IN_GAME",
                   gameId |-> "g1", category |-> "CONSUMABLE",
                   price |-> 100, isActive |-> FALSE,
                   gemAmount |-> 0, instant |-> FALSE] ]

ItemIds == {"sword", "potion", "gempack", "card", "shirt", "retired", "ghost"}

Quantities == {0, 1, 2, 101}

\* The clock advances in steps of three minutes: an order is inside the
\* five-minute window one step later and outside it two steps later.
TickSteps == {3}

PurchaseItemDtos == [itemId : ItemIds, quantity : Quantities]

\* The item lists a request may carry: none, one or two lines.
ItemLists ==
    {<<>>} \cup {<<a>> : a \in PurchaseItemDtos}
           \cup {<<a, b>> : a \in PurchaseItemDtos, b \in PurchaseItemDtos}

Line(id, q) == [itemId |-> id, quantity |-> q]

\* The item lists of the requests that run concurrently.
ConcurrentLists ==
    { <<>>,
      <<Line("sword", 1)>>, <<Line("sword", 2)>>,
      <<Line("potion", 1)>>, <<Line("potion", 2)>>, <<Line("potion", 0)>>,
      <<Line("gempack", 1)>>, <<Line("card", 1)>>,
      <<Line("ghost", 1)>>, <<Line("retired", 1)>>,
      <<Line("sword", 1), Line("potion", 1)>>,
      <<Line("potion", 1), Line("potion", 1)>>,
      <<Line("sword", 2), Line("ghost", 1)>> }

\* The idempotencyKey of a request: "" when the request carries none.
IdempotencyKeys == {"", "k1"}

PurchaseIds == <<"p1", "p2", "p3", "p4", "p5", "p6">>

----------------------------------------------------------------------------
(* Helpers *)

RECURSIVE SumSeq(_)
SumSeq(s) == IF s = <<>> THEN 0 ELSE Head(s) + SumSeq(Tail(s))

NoRetry ==
    [pc |-> "idle", userId |-> "", purchaseId |-> "", kind |-> "",
     error |-> "", count |-> 0]

NoEquip ==
    [pc |-> "idle", op |-> "", userId |-> "", profileId |-> 0, itemId |-> "",
     slot |-> "", name |-> "", gameId |-> "", rows |-> {}, kind |-> "",
     error |-> ""]

NoRequest ==
    [pc |-> "idle", userId |-> "", items |-> <<>>, idempotencyKey |-> "",
     totalCost |-> 0, newBalance |-> 0, kind |-> "", error |-> ""]

Rejected(r, kind, error) ==
    [req[r] EXCEPT !.pc = "rejected", !.kind = kind, !.error = error]

Item(id) == StoreItems[id]

UserOf(r) == req[r].userId

InFlight == {r \in Reqs : req[r].pc \in {"precheck", "tx_own", "tx_debit", "tx_write"}}

\* Mutant: the wallet row is never locked (a read followed by a write).
WalletLockedNever(u) == FALSE

\* The wallet row of user u is locked by an open transaction that has
\* updated it and has not yet committed or rolled back.
WalletLocked(u) == \E r \in Reqs : req[r].pc = "tx_write" /\ req[r].userId = u

InventoryRows(u, id) ==
    {i \in DOMAIN inventory : inventory[i].userId = u /\ inventory[i].itemId = id}

----------------------------------------------------------------------------
(* createPurchase: the duplicate check and the validation *)

\* Mutant: the duplicate check ignores the age of the purchase.
checkDuplicatePurchaseAnyAge(u) ==
    \E i \in DOMAIN purchases : purchases[i].userId = u

\* checkDuplicatePurchase: any purchase of the user created in the last five
\* minutes; the key itself is not compared.
checkDuplicatePurchase(u) ==
    \E i \in DOMAIN purchases :
        /\ purchases[i].userId = u
        /\ purchases[i].createdAt >= now - DuplicateWindow

\* Mutant: the lookup of the items ignores isActive.
FoundItemsAnyStatus(items) ==
    {id \in {items[i].itemId : i \in DOMAIN items} : id \in DOMAIN StoreItems}

\* storeItem.findMany({ id in itemIds, isActive: true }): the rows found.
FoundItems(items) ==
    {id \in {items[i].itemId : i \in DOMAIN items} :
        id \in DOMAIN StoreItems /\ StoreItems[id].isActive}

\* The check of one line inside the loop of validatePurchaseItems.
LineError(found, line) ==
    IF line.itemId \notin found THEN "ItemNotFound"
    ELSE IF line.quantity <= 0 \/ line.quantity > MaxQuantity THEN "Quantity"
    ELSE IF Item(line.itemId).type = "NON_CONSUMABLE" /\ line.quantity # 1
         THEN "NonConsumableQuantity"
    ELSE ""

\* Mutant: the cost of a line ignores its quantity.
LineTotalUnitPrice(line) == Item(line.itemId).price

LineTotal(line) == Item(line.itemId).price * line.quantity

TotalCost(items) == SumSeq([i \in DOMAIN items |-> LineTotal(items[i])])

\* Mutant: validatePurchaseItems without the comparison of the counts.
validatePurchaseItemsNoCount(items) ==
    LET found == FoundItems(items)
        bad   == {i \in DOMAIN items : LineError(found, items[i]) # ""}
        first == CHOOSE i \in bad : \A j \in bad : i <= j
    IN  IF Len(items) = 0
        THEN [kind |-> "BadRequest", error |-> "NoItems", totalCost |-> 0]
        ELSE IF bad # {}
        THEN [kind |-> IF LineError(found, items[first]) = "ItemNotFound"
                       THEN "NotFound" ELSE "BadRequest",
              error |-> LineError(found, items[first]), totalCost |-> 0]
        ELSE [kind |-> "", error |-> "", totalCost |-> TotalCost(items)]

\* validatePurchaseItems: [kind, error, totalCost]; kind "" when it returns.
validatePurchaseItems(items) ==
    LET found == FoundItems(items)
        bad   == {i \in DOMAIN items : LineError(found, items[i]) # ""}
        first == CHOOSE i \in bad : \A j \in bad : i <= j
    IN  IF Len(items) = 0
        THEN [kind |-> "BadRequest", error |-> "NoItems", totalCost |-> 0]
        ELSE IF Cardinality(found) # Len(items)
        THEN [kind |-> "NotFound", error |-> "ItemsNotFound", totalCost |-> 0]
        ELSE IF bad # {}
        THEN [kind |-> IF LineError(found, items[first]) = "ItemNotFound"
                       THEN "NotFound" ELSE "BadRequest",
              error |-> LineError(found, items[first]), totalCost |-> 0]
        ELSE [kind |-> "", error |-> "", totalCost |-> TotalCost(items)]

\* createPurchase up to the call of getUserWallet.
Begin(r, u, items, idempotencyKey) ==
    /\ req[r].pc = "idle"
    /\ u \in registered
    /\ LET v == validatePurchaseItems(items)
           started == [NoRequest EXCEPT !.userId = u, !.items = items,
                                        !.idempotencyKey = idempotencyKey]
       IN  req' = [req EXCEPT ![r] =
                IF idempotencyKey # "" /\ checkDuplicatePurchase(u)
                THEN [started EXCEPT !.pc = "rejected", !.kind = "Conflict",
                                     !.error = "Duplicate"]
                ELSE IF v.kind # ""
                THEN [started EXCEPT !.pc = "rejected", !.kind = v.kind,
                                     !.error = v.error]
                ELSE [started EXCEPT !.pc = "precheck",
                                     !.totalCost = v.totalCost]]
    /\ UNCHANGED <<now, use, db, retry, characters>>

\* Mutant: the balance check before the transaction lets every request pass.
PreCheckSkipped(r) ==
    /\ req[r].pc = "precheck"
    /\ req' = [req EXCEPT ![r].pc = "tx_own"]
    /\ UNCHANGED <<now, use, db, retry, characters>>

\* getUserWallet and the balance check before the transaction.
PreCheck(r) ==
    /\ req[r].pc = "precheck"
    /\ req' = [req EXCEPT ![r] =
            IF balance[UserOf(r)] < req[r].totalCost
            THEN Rejected(r, "BadRequest", "InsufficientGems")
            ELSE [req[r] EXCEPT !.pc = "tx_own"]]
    /\ UNCHANGED <<now, use, db, retry, characters>>

----------------------------------------------------------------------------
(* executePurchaseTransaction *)

\* validateNonConsumableOwnership: a NON_CONSUMABLE line whose item the user
\* has an inventory row for.
OwnedNonConsumable(u, items) ==
    \E i \in DOMAIN items :
        /\ Item(items[i].itemId).type = "NON_CONSUMABLE"
        /\ InventoryRows(u, items[i].itemId) # {}

validateNonConsumableOwnership(r) ==
    /\ req[r].pc = "tx_own"
    /\ req' = [req EXCEPT ![r] =
            IF OwnedNonConsumable(UserOf(r), req[r].items)
            THEN Rejected(r, "BadRequest", "AlreadyOwned")
            ELSE [req[r] EXCEPT !.pc = "tx_debit"]]
    /\ UNCHANGED <<now, use, db, retry, characters>>

\* Mutant: the decrement without the check of the resulting balance.
DebitWalletUnchecked(r) ==
    /\ req[r].pc = "tx_debit"
    /\ ~WalletLocked(UserOf(r))
    /\ req' = [req EXCEPT ![r] =
            [req[r] EXCEPT !.pc = "tx_write",
                           !.newBalance = balance[UserOf(r)] - req[r].totalCost]]
    /\ UNCHANGED <<now, use, db, retry, characters>>

\* userWallet.update({ balance: { decrement } }) and the check of the result.
\* The update waits for the wallet's row lock and works on the committed row.
DebitWallet(r) ==
    /\ req[r].pc = "tx_debit"
    /\ ~WalletLocked(UserOf(r))
    /\ LET updated == balance[UserOf(r)] - req[r].totalCost
       IN  req' = [req EXCEPT ![r] =
                IF updated < 0
                THEN Rejected(r, "BadRequest", "InsufficientGemsInTx")
                ELSE [req[r] EXCEPT !.pc = "tx_write", !.newBalance = updated]]
    /\ UNCHANGED <<now, use, db, retry, characters>>

\* Mutant: no item is skipped by addItemsToInventory.
SkipsInventoryNever(id) == FALSE

\* The lines addItemsToInventory skips: functional items applied at once.
SkipsInventory(id) ==
    Item(id).deliveryType = "FUNCTIONAL" /\ Item(id).instant

\* Mutant: the inventory table has no unique key on (userId, itemId).
InventoryCreateNeverFails(inv, u, items) == FALSE

\* userInventory.create on a (userId, itemId) pair that already has a row
\* violates the table's unique key userId_itemId and throws.
InventoryCreateFails(inv, u, items) ==
    \E i \in DOMAIN items :
        /\ ~SkipsInventory(items[i].itemId)
        /\ Item(items[i].itemId).type # "CONSUMABLE"
        /\ \E k \in DOMAIN inv :
               inv[k].userId = u /\ inv[k].itemId = items[i].itemId

\* Mutant: a new inventory row of a consumable is created with quantity 1.
AddLineSingleUnit(inv, u, line) ==
    IF SkipsInventory(line.itemId) THEN inv
    ELSE IF \E k \in DOMAIN inv : inv[k].userId = u /\ inv[k].itemId = line.itemId
    THEN [k \in DOMAIN inv |->
             IF inv[k].userId = u /\ inv[k].itemId = line.itemId
             THEN [inv[k] EXCEPT !.quantity = @ + line.quantity]
             ELSE inv[k]]
    ELSE Append(inv, [userId |-> u, itemId |-> line.itemId,
                      quantity |-> 1, isConsumed |-> FALSE])

\* One line of addItemsToInventory: upsert for a consumable, create otherwise.
AddLine(inv, u, line) ==
    IF SkipsInventory(line.itemId) THEN inv
    ELSE IF Item(line.itemId).type = "CONSUMABLE"
    THEN IF \E k \in DOMAIN inv : inv[k].userId = u /\ inv[k].itemId = line.itemId
         THEN [k \in DOMAIN inv |->
                  IF inv[k].userId = u /\ inv[k].itemId = line.itemId
                  THEN [inv[k] EXCEPT !.quantity = @ + line.quantity]
                  ELSE inv[k]]
         ELSE Append(inv, [userId |-> u, itemId |-> line.itemId,
                           quantity |-> line.quantity, isConsumed |-> FALSE])
    ELSE Append(inv, [userId |-> u, itemId |-> line.itemId,
                      quantity |-> 1, isConsumed |-> FALSE])

RECURSIVE addItemsToInventory(_, _, _)
addItemsToInventory(inv, u, items) ==
    IF items = <<>> THEN inv
    ELSE addItemsToInventory(AddLine(inv, u, Head(items)), u, Tail(items))

\* Mutant: the credit of a gem-pack line ignores its quantity.
GemAmountOnce(line) ==
    IF /\ Item(line.itemId).deliveryType = "FUNCTIONAL"
       /\ Item(line.itemId).gemAmount # 0
       /\ Item(line.itemId).instant
    THEN Item(line.itemId).gemAmount
    ELSE 0

\* processFunctionalItems: the gems one line credits (0 when it is no gem pack).
GemAmount(line) ==
    IF /\ Item(line.itemId).deliveryType = "FUNCTIONAL"
       /\ Item(line.itemId).gemAmount # 0
       /\ Item(line.itemId).instant
    THEN Item(line.itemId).gemAmount * line.quantity
    ELSE 0

\* The reference of a gem-pack credit: `gem-pack-${storeItem.id}`.
GemPackReference(id) == [gempack |-> "gem-pack-gempack"][id]

GemLines(items) == SelectSeq(items, LAMBDA line : GemAmount(line) # 0)

\* Mutant: the gems are credited without a ledger row.
processFunctionalItemsNoRow(u, items) == <<>>

\* The CREDIT rows processFunctionalItems writes, one per gem-pack line.
processFunctionalItems(u, items) ==
    [i \in DOMAIN GemLines(items) |->
        [walletId |-> u, type |-> "CREDIT",
         amount |-> GemAmount(GemLines(items)[i]),
         referenceId |-> GemPackReference(GemLines(items)[i].itemId)]]

GemTotal(items) == SumSeq([i \in DOMAIN items |-> GemAmount(items[i])])

\* Mutant: only IN_GAME deliveries start as COMPLETED.
getFulfillmentStatusInGameOnly(deliveryType) ==
    IF deliveryType = "IN_GAME" THEN "COMPLETED" ELSE "PENDING"

getFulfillmentStatus(deliveryType) ==
    CASE deliveryType \in {"IN_GAME", "FUNCTIONAL"} -> "COMPLETED"
      [] deliveryType \in {"EMAIL", "SHOPIFY"} -> "PENDING"
      [] OTHER -> "PENDING"

\* Mutant: one fulfillment row for the purchase instead of one per line.
createFulfillmentRecordsOnce(pid, u, items) ==
    <<[purchaseId |-> pid, userId |-> u, itemId |-> items[1].itemId,
       status |-> "PENDING",
       deliveryType |-> Item(items[1].itemId).deliveryType,
       attempts |-> 0, lastAttempt |-> <<>>, completed |-> FALSE]>>

\* createFulfillmentRecords: one row per line.
createFulfillmentRecords(pid, u, items) ==
    [i \in DOMAIN items |->
        [purchaseId |-> pid, userId |-> u, itemId |-> items[i].itemId,
         status |-> getFulfillmentStatus(Item(items[i].itemId).deliveryType),
         deliveryType |-> Item(items[i].itemId).deliveryType,
         attempts |-> 0, lastAttempt |-> <<>>,
         completed |->
            getFulfillmentStatus(Item(items[i].itemId).deliveryType) = "COMPLETED"]]

\* Mutant: a line is recorded for every item except instantly applied ones.
createPurchaseItemsSkipInstant(pid, items) ==
    LET kept == SelectSeq(items, LAMBDA line : ~SkipsInventory(line.itemId))
    IN  [i \in DOMAIN kept |->
            [purchaseId |-> pid, itemId |-> kept[i].itemId,
             quantity |-> kept[i].quantity,
             unitPrice |-> Item(kept[i].itemId).price,
             totalPrice |-> Item(kept[i].itemId).price * kept[i].quantity]]

\* purchaseItem.create for every line.
createPurchaseItems(pid, items) ==
    [i \in DOMAIN items |->
        [purchaseId |-> pid, itemId |-> items[i].itemId,
         quantity |-> items[i].quantity,
         unitPrice |-> Item(items[i].itemId).price,
         totalPrice |-> Item(items[i].itemId).price * items[i].quantity]]

\* Mutant: the placeholder is never replaced.
BackfillReferenceNever(rows, u, pid) == rows

\* walletTransaction.updateMany: every row of the wallet that still carries
\* the placeholder gets the purchase id.
BackfillReference(rows, u, pid) ==
    [i \in DOMAIN rows |->
        IF rows[i].walletId = u /\ rows[i].referenceId = "purchase-pending"
        THEN [rows[i] EXCEPT !.referenceId = pid]
        ELSE rows[i]]

\* The DEBIT row written after the decrement.
DebitRow(u, totalCost) ==
    [walletId |-> u, type |-> "DEBIT", amount |-> totalCost,
     referenceId |-> "purchase-pending"]

\* Mutant: the writes go to the database outside the transaction, so a
\* failing userInventory.create leaves the earlier writes in place.
CommitPurchaseNoRollback(r) ==
    /\ req[r].pc = "tx_write"
    /\ LET u     == UserOf(r)
           items == req[r].items
           pid   == PurchaseIds[Len(purchases) + 1]
           fails == InventoryCreateFails(inventory, u, items)
       IN  /\ balance' = [balance EXCEPT ![u] =
                   IF fails THEN req[r].newBalance
                   ELSE req[r].newBalance + GemTotal(items)]
           /\ walletTx' =
                   IF fails THEN Append(walletTx, DebitRow(u, req[r].totalCost))
                   ELSE BackfillReference(
                            Append(walletTx, DebitRow(u, req[r].totalCost))
                                \o processFunctionalItems(u, items), u, pid)
           /\ purchases' = Append(purchases,
                   [id |-> pid, userId |-> u, totalAmount |-> req[r].totalCost,
                    status |-> "COMPLETED", createdAt |-> now])
           /\ purchaseItems' = purchaseItems \o createPurchaseItems(pid, items)
           /\ inventory' = IF fails THEN inventory
                           ELSE addItemsToInventory(inventory, u, items)
           /\ fulfillments' = IF fails THEN fulfillments
                   ELSE fulfillments \o createFulfillmentRecords(pid, u, items)
           /\ req' = [req EXCEPT ![r] =
                   IF fails THEN Rejected(r, "Internal", "UniqueConstraint")
                   ELSE [req[r] EXCEPT !.pc = "committed"]]
           /\ UNCHANGED registered
    /\ UNCHANGED <<now, use, retry, characters>>

\* Steps 3 to 9 of executePurchaseTransaction and the commit.  A failing
\* userInventory.create rolls the transaction back.
CommitPurchase(r) ==
    /\ req[r].pc = "tx_write"
    /\ LET u     == UserOf(r)
           items == req[r].items
           pid   == PurchaseIds[Len(purchases) + 1]
       IN  IF InventoryCreateFails(inventory, u, items)
           THEN /\ req' = [req EXCEPT ![r] =
                        Rejected(r, "Internal", "UniqueConstraint")]
                /\ UNCHANGED db
           ELSE /\ balance' = [balance EXCEPT ![u] =
                        req[r].newBalance + GemTotal(items)]
                /\ walletTx' = BackfillReference(
                        Append(walletTx, DebitRow(u, req[r].totalCost))
                            \o processFunctionalItems(u, items), u, pid)
                /\ purchases' = Append(purchases,
                        [id |-> pid, userId |-> u,
                         totalAmount |-> req[r].totalCost,
                         status |-> "COMPLETED", createdAt |-> now])
                /\ purchaseItems' = purchaseItems \o createPurchaseItems(pid, items)
                /\ inventory' = addItemsToInventory(inventory, u, items)
                /\ fulfillments' =
                        fulfillments \o createFulfillmentRecords(pid, u, items)
                /\ req' = [req EXCEPT ![r].pc = "committed"]
                /\ UNCHANGED registered
    /\ UNCHANGED <<now, use, retry, characters>>

\* Mutant: a storage failure turns a committed request into a rejected one.
AbortTransactionAfterCommit(r) ==
    /\ req[r].pc \in {"tx_own", "tx_debit", "tx_write", "committed"}
    /\ req' = [req EXCEPT ![r] = Rejected(r, "Internal", "StorageFailure")]
    /\ UNCHANGED <<now, use, db, retry, characters>>

\* A storage failure inside the transaction (a lost connection, a lock wait
\* or transaction timeout): prisma.$transaction rolls back and rethrows.
AbortTransaction(r) ==
    /\ req[r].pc \in {"tx_own", "tx_debit", "tx_write"}
    /\ req' = [req EXCEPT ![r] = Rejected(r, "Internal", "StorageFailure")]
    /\ UNCHANGED <<now, use, db, retry, characters>>

\* The response is sent; the slot is free for the next request.
Return(r) ==
    /\ req[r].pc \in {"committed", "rejected"}
    /\ req' = [req EXCEPT ![r] = NoRequest]
    /\ UNCHANGED <<now, use, db, retry, characters>>

----------------------------------------------------------------------------
(* InventoryService.useItem *)

\* The slots of the useItem requests.
UseReqs == {"v1", "v2"}

NoUse == [pc |-> "idle", userId |-> "", itemId |-> "", quantity |-> 0,
          kind |-> "", error |-> ""]

\* useItem up to the update: the transaction reads the row of the item with
\* findUnique, a read that takes no lock, and checks the item's type, the
\* quantity and the consumed flag it has read.
useFind(v, u, itemId) ==
    /\ use[v].pc = "idle"
    /\ u \in registered
    /\ LET call == [NoUse EXCEPT !.userId = u, !.itemId = itemId]
           rows == InventoryRows(u, itemId)
           fail(kind, error) ==
               [call EXCEPT !.pc = "rejected", !.kind = kind, !.error = error]
       IN  use' = [use EXCEPT ![v] =
                IF rows = {} THEN fail("NotFound", "ItemNotInInventory")
                ELSE LET row == inventory[CHOOSE i \in rows : TRUE]
                     IN  IF Item(itemId).type # "CONSUMABLE"
                         THEN fail("BadRequest", "NotConsumable")
                         ELSE IF row.quantity <= 0 \/ row.isConsumed
                         THEN fail("BadRequest", "NoUsableQuantity")
                         ELSE [call EXCEPT !.pc = "update",
                                           !.quantity = row.quantity]]
    /\ UNCHANGED <<now, db, req, retry, characters>>

\* userInventory.update and the commit: the quantity of the committed row
\* goes down by one, and the row is marked consumed when the quantity read
\* before was 1.  The update locks the row until the commit.
useUpdate(v) ==
    /\ use[v].pc = "update"
    /\ inventory' =
          [i \in DOMAIN inventory |->
              IF /\ inventory[i].userId = use[v].userId
                 /\ inventory[i].itemId = use[v].itemId
              THEN [inventory[i] EXCEPT !.quantity = @ - 1,
                                        !.isConsumed = (use[v].quantity = 1)]
              ELSE inventory[i]]
    /\ use' = [use EXCEPT ![v].pc = "committed"]
    /\ UNCHANGED <<now, registered, balance, walletTx, purchases,
                   purchaseItems, fulfillments, req, retry, characters>>

\* The response is sent; the slot is free for the next request.
useReturn(v) ==
    /\ use[v].pc \in {"committed", "rejected"}
    /\ use' = [use EXCEPT ![v] = NoUse]
    /\ UNCHANGED <<now, db, req, retry, characters>>

----------------------------------------------------------------------------
(* retryPurchase and the delivery worker *)

\* Mutant: the FAILED fulfillments of every purchase.
FailedFulfillmentsOfAnyOrder(pid) ==
    {i \in DOMAIN fulfillments : fulfillments[i].status = "FAILED"}

\* The fulfillments of purchase pid in status FAILED.
FailedFulfillments(pid) ==
    {i \in DOMAIN fulfillments :
        fulfillments[i].purchaseId = pid /\ fulfillments[i].status = "FAILED"}

\* Mutant: the order is looked up by its id alone.
retryFindAnyUser(t, u, pid) ==
    /\ retry[t].pc = "idle"
    /\ u \in registered
    /\ LET found == \E i \in DOMAIN purchases :
                        /\ purchases[i].id = pid
                        /\ purchases[i].status = "COMPLETED"
           call  == [NoRetry EXCEPT !.userId = u, !.purchaseId = pid]
       IN  retry' = [retry EXCEPT ![t] =
                IF ~found
                THEN [call EXCEPT !.pc = "rejected", !.kind = "NotFound",
                                  !.error = "PurchaseNotFound"]
                ELSE IF FailedFulfillments(pid) = {}
                THEN [call EXCEPT !.pc = "rejected", !.kind = "BadRequest",
                                  !.error = "NoFailedFulfillments"]
                ELSE [call EXCEPT !.pc = "update"]]
    /\ UNCHANGED <<now, use, db, req, characters>>

\* purchase.findFirst({ id, userId, status: 'COMPLETED' }) and the two checks.
retryFind(t, u, pid) ==
    /\ retry[t].pc = "idle"
    /\ u \in registered
    /\ LET found == \E i \in DOMAIN purchases :
                        /\ purchases[i].id = pid
                        /\ purchases[i].userId = u
                        /\ purchases[i].status = "COMPLETED"
           call  == [NoRetry EXCEPT !.userId = u, !.purchaseId = pid]
       IN  retry' = [retry EXCEPT ![t] =
                IF ~found
                THEN [call EXCEPT !.pc = "rejected", !.kind = "NotFound",
                                  !.error = "PurchaseNotFound"]
                ELSE IF FailedFulfillments(pid) = {}
                THEN [call EXCEPT !.pc = "rejected", !.kind = "BadRequest",
                                  !.error = "NoFailedFulfillments"]
                ELSE [call EXCEPT !.pc = "update"]]
    /\ UNCHANGED <<now, use, db, req, characters>>

\* Mutant: the update marks the rows RETRY without counting the attempt.
retryUpdateNoIncrement(t) ==
    /\ retry[t].pc = "update"
    /\ LET rows == FailedFulfillments(retry[t].purchaseId)
       IN  /\ fulfillments' = [i \in DOMAIN fulfillments |->
                    IF i \in rows
                    THEN [fulfillments[i] EXCEPT !.status = "RETRY",
                                                 !.lastAttempt = <<now>>]
                    ELSE fulfillments[i]]
           /\ retry' = [retry EXCEPT ![t].pc = "done",
                                     ![t].count = Cardinality(rows)]
    /\ UNCHANGED <<now, use, registered, balance, walletTx, purchases,
                   purchaseItems, inventory, req, characters>>

\* itemFulfillment.updateMany({ purchaseId, status: 'FAILED' }) and the
\* response with the count of the rows it changed.
retryUpdate(t) ==
    /\ retry[t].pc = "update"
    /\ LET rows == FailedFulfillments(retry[t].purchaseId)
       IN  /\ fulfillments' = [i \in DOMAIN fulfillments |->
                    IF i \in rows
                    THEN [fulfillments[i] EXCEPT !.status = "RETRY",
                                                 !.attempts = @ + 1,
                                                 !.lastAttempt = <<now>>]
                    ELSE fulfillments[i]]
           /\ retry' = [retry EXCEPT ![t].pc = "done",
                                     ![t].count = Cardinality(rows)]
    /\ UNCHANGED <<now, use, registered, balance, walletTx, purchases,
                   purchaseItems, inventory, req, characters>>

\* The response is sent; the slot is free for the next request.
retryReturn(t) ==
    /\ retry[t].pc \in {"done", "rejected"}
    /\ retry' = [retry EXCEPT ![t] = NoRetry]
    /\ UNCHANGED <<now, use, db, req, characters>>

\* The external delivery worker reports the outcome of a PENDING or RETRY
\* fulfillment: COMPLETED (completedAt stamped) or FAILED.  A row is reported
\* FAILED only while its attempts are below MaxAttempts.
DeliveryReport(i, outcome) ==
    /\ fulfillments[i].status \in {"PENDING", "RETRY"}
    /\ outcome = "FAILED" => fulfillments[i].attempts < MaxAttempts
    /\ fulfillments' = [fulfillments EXCEPT
            ![i].status = outcome,
            ![i].completed = (outcome = "COMPLETED")]
    /\ UNCHANGED <<now, use, registered, balance, walletTx, purchases,
                   purchaseItems, inventory, req, retry, characters>>

----------------------------------------------------------------------------
(* CharacterProfilesService: profiles, equipItem, unequipItem, unequipSlot *)

\* The games (all active); gameId "" is a platform-wide profile.
Games == {"g1", "g2"}

ProfileNames == {"hero"}

\* The slots a request may name; "" when the request names none.
Slots == {"", "s1"}

\* createCharacterProfile: the game exists, the name is free among the user's
\* profiles of that game, and the profile is created active.
createCharacterProfile(u, name, gameId) ==
    /\ u \in registered
    /\ nextId.profile < MaxProfiles
    /\ gameId # "" => gameId \in Games
    /\ ~\E p \in profiles :
            p.userId = u /\ p.name = name /\ p.gameId = gameId
    /\ profiles' = profiles \cup
            {[id |-> nextId.profile + 1, userId |-> u, name |-> name,
              gameId |-> gameId, isActive |-> TRUE]}
    /\ nextId' = [nextId EXCEPT !.profile = @ + 1]
    /\ UNCHANGED <<now, use, db, req, retry, equipped, equip>>

\* Mutant: every item fits every profile.
validateItemCompatibilityAny(id, profile) == TRUE

\* validateItemCompatibility: a game item fits profiles of its game only.
validateItemCompatibility(id, profile) ==
    Item(id).gameId = "" \/ Item(id).gameId = profile.gameId

\* determineSlotFromItem, for items without gameSpecificData.
determineSlotFromItem(id) ==
    CASE Item(id).category = "SKIN" -> "primary_skin"
      [] Item(id).category = "UTILITY" -> "utility"
      [] Item(id).category = "CONSUMABLE" -> "consumable"
      [] Item(id).category = "DIGITAL_REWARD" -> "reward"
      [] Item(id).category = "PHYSICAL_MERCH" -> "merchandise"
      [] OTHER -> "misc"

\* The equipped rows an equipItem transaction has deleted and not committed:
\* they stay locked until it ends.
LockedEquipped(e) ==
    UNION {equip[o].rows : o \in {x \in EquipReqs \ {e} :
                                     equip[x].pc = "tx_create"}}

\* Mutant: the profile with this id, whoever owns it.
ProfileOfAnyUser(u, pid) == {p \in profiles : p.id = pid}

\* The profile of the user with this id (the empty set when there is none).
ProfileOf(u, pid) == {p \in profiles : p.id = pid /\ p.userId = u}

\* equipItem up to the first write: the profile, the inventory row, the
\* compatibility and the type of the item, and the slot.
equipBegin(e, u, pid, itemId, slot) ==
    /\ equip[e].pc = "idle"
    /\ u \in registered
    /\ LET call == [NoEquip EXCEPT !.op = "equipItem", !.userId = u,
                                   !.profileId = pid, !.itemId = itemId]
           owned == \E i \in DOMAIN inventory :
                        /\ inventory[i].userId = u
                        /\ inventory[i].itemId = itemId
                        /\ ~inventory[i].isConsumed
           fail(kind, error) ==
               [call EXCEPT !.pc = "rejected", !.kind = kind, !.error = error]
       IN  equip' = [equip EXCEPT ![e] =
                IF ProfileOf(u, pid) = {}
                THEN fail("NotFound", "ProfileNotFound")
                ELSE IF ~owned
                THEN fail("NotFound", "ItemNotInInventory")
                ELSE IF ~validateItemCompatibility(itemId,
                            CHOOSE p \in ProfileOf(u, pid) : TRUE)
                THEN fail("BadRequest", "Incompatible")
                ELSE IF Item(itemId).type = "CONSUMABLE"
                THEN fail("BadRequest", "ConsumableNotEquippable")
                ELSE [call EXCEPT !.pc = "tx_delete",
                        !.slot = IF slot # "" THEN slot
                                 ELSE determineSlotFromItem(itemId)]]
    /\ UNCHANGED <<now, use, db, req, retry, profiles, equipped, nextId>>

\* Mutant: only the row in the slot is removed, not the rows of the item.
equipDeleteSlotOnly(e) ==
    /\ equip[e].pc = "tx_delete"
    /\ LET rows == {x \in equipped :
                       /\ x.profileId = equip[e].profileId
                       /\ x.slot = equip[e].slot}
       IN  /\ rows \cap LockedEquipped(e) = {}
           /\ equip' = [equip EXCEPT ![e].pc = "tx_create", ![e].rows = rows]
    /\ UNCHANGED <<now, use, db, req, retry, profiles, equipped, nextId>>

\* Mutant: only the rows of the item are removed, not the row in the slot.
equipDeleteItemOnly(e) ==
    /\ equip[e].pc = "tx_delete"
    /\ LET rows == {x \in equipped :
                       /\ x.profileId = equip[e].profileId
                       /\ x.itemId = equip[e].itemId}
       IN  /\ rows \cap LockedEquipped(e) = {}
           /\ equip' = [equip EXCEPT ![e].pc = "tx_create", ![e].rows = rows]
    /\ UNCHANGED <<now, use, db, req, retry, profiles, equipped, nextId>>

\* The two deleteMany calls of equipItem: the row in the slot and the rows
\* of the item on the profile.  They act on the committed rows, wait for
\* rows another transaction has deleted, and take effect at the commit.
equipDelete(e) ==
    /\ equip[e].pc = "tx_delete"
    /\ LET rows == {x \in equipped :
                       /\ x.profileId = equip[e].profileId
                       /\ \/ x.slot = equip[e].slot
                          \/ x.itemId = equip[e].itemId}
       IN  /\ rows \cap LockedEquipped(e) = {}
           /\ equip' = [equip EXCEPT ![e].pc = "tx_create", ![e].rows = rows]
    /\ UNCHANGED <<now, use, db, req, retry, profiles, equipped, nextId>>

\* Mutant: unequip removes every row of the profile.
unequipDeleteAll(e) ==
    /\ equip[e].pc = "delete"
    /\ equipped' = {x \in equipped : x.profileId # equip[e].profileId}
    /\ equip' = [equip EXCEPT ![e].pc = "committed"]
    /\ UNCHANGED <<now, use, db, req, retry, profiles, nextId>>

\* Mutant: the table has no unique key.
EquippedKeyTakenNever(rows, row) == FALSE

\* The unique keys of CharacterEquippedItem, (profileId, slot) and
\* (profileId, itemId): a row with the key of the new row exists.
EquippedKeyTaken(rows, row) ==
    \E x \in rows :
        /\ x.profileId = row.profileId
        /\ x.slot = row.slot \/ x.itemId = row.itemId

\* characterEquippedItem.create and the commit of the transaction; a create
\* whose profile was deleted meanwhile, or that hits a unique key, fails and
\* the transaction rolls back.
equipCreate(e) ==
    /\ equip[e].pc = "tx_create"
    /\ LET kept == equipped \ equip[e].rows
           row  == [id |-> nextId.equipped + 1,
                    profileId |-> equip[e].profileId,
                    itemId |-> equip[e].itemId, slot |-> equip[e].slot]
       IN  IF ~\E p \in profiles : p.id = equip[e].profileId
           THEN /\ equip' = [equip EXCEPT ![e].pc = "rejected",
                                          ![e].kind = "Internal",
                                          ![e].error = "ForeignKey"]
                /\ UNCHANGED <<equipped, nextId>>
           ELSE IF EquippedKeyTaken(kept, row)
           THEN /\ equip' = [equip EXCEPT ![e].pc = "rejected",
                                          ![e].kind = "Internal",
                                          ![e].error = "UniqueConstraint"]
                /\ UNCHANGED <<equipped, nextId>>
           ELSE /\ equipped' = kept \cup {row}
                /\ nextId' = [nextId EXCEPT !.equipped = @ + 1]
                /\ equip' = [equip EXCEPT ![e].pc = "committed"]
    /\ UNCHANGED <<now, use, db, req, retry, profiles>>

\* unequipItem (by = "item") and unequipSlot (by = "slot") up to the delete:
\* the profile and the equipped row are looked up.
unequipFind(e, u, pid, by, key) ==
    /\ equip[e].pc = "idle"
    /\ u \in registered
    /\ LET call  == [NoEquip EXCEPT
                        !.op = IF by = "item" THEN "unequipItem"
                               ELSE "unequipSlot",
                        !.userId = u, !.profileId = pid,
                        !.itemId = IF by = "item" THEN key ELSE "",
                        !.slot = IF by = "slot" THEN key ELSE ""]
           found == {x \in equipped :
                        /\ x.profileId = pid
                        /\ IF by = "item" THEN x.itemId = key
                           ELSE x.slot = key}
       IN  \/ /\ ProfileOf(u, pid) = {}
              /\ equip' = [equip EXCEPT ![e] =
                    [call EXCEPT !.pc = "rejected", !.kind = "NotFound",
                                 !.error = "ProfileNotFound"]]
           \/ /\ ProfileOf(u, pid) # {}
              /\ found = {}
              /\ equip' = [equip EXCEPT ![e] =
                    [call EXCEPT !.pc = "rejected", !.kind = "NotFound",
                                 !.error = "NotEquipped"]]
           \/ /\ ProfileOf(u, pid) # {}
              /\ \E x \in found :
                    equip' = [equip EXCEPT ![e] =
                        [call EXCEPT !.pc = "delete", !.rows = {x}]]
    /\ UNCHANGED <<now, use, db, req, retry, profiles, equipped, nextId>>

\* characterEquippedItem.delete({ id }): fails when the row is gone.
unequipDelete(e) ==
    /\ equip[e].pc = "delete"
    /\ equip[e].rows \cap LockedEquipped(e) = {}
    /\ IF equip[e].rows \subseteq equipped
       THEN /\ equipped' = equipped \ equip[e].rows
            /\ equip' = [equip EXCEPT ![e].pc = "committed"]
       ELSE /\ equip' = [equip EXCEPT ![e].pc = "rejected",
                                      ![e].kind = "Internal",
                                      ![e].error = "RecordNotFound"]
            /\ UNCHANGED equipped
    /\ UNCHANGED <<now, use, db, req, retry, profiles, nextId>>

\* activateCharacterProfile up to the transaction: the profile is looked up.
activateFind(e, u, pid) ==
    /\ equip[e].pc = "idle"
    /\ u \in registered
    /\ LET call == [NoEquip EXCEPT !.op = "activateCharacterProfile",
                                   !.userId = u, !.profileId = pid]
       IN  equip' = [equip EXCEPT ![e] =
                IF ProfileOf(u, pid) = {}
                THEN [call EXCEPT !.pc = "rejected", !.kind = "NotFound",
                                  !.error = "ProfileNotFound"]
                ELSE [call EXCEPT !.pc = "activate",
                                  !.rows = ProfileOf(u, pid)]]
    /\ UNCHANGED <<now, use, db, req, retry, profiles, equipped, nextId>>

\* Mutant: the other profiles of the user are deactivated whatever their game.
activateCommitAllGames(e) ==
    /\ equip[e].pc = "activate"
    /\ LET pid == equip[e].profileId
       IN  IF ~\E p \in profiles : p.id = pid
           THEN /\ equip' = [equip EXCEPT ![e].pc = "rejected",
                                          ![e].kind = "Internal",
                                          ![e].error = "RecordNotFound"]
                /\ UNCHANGED profiles
           ELSE /\ profiles' =
                    {[p EXCEPT !.isActive = (p.id = pid)] :
                        p \in {q \in profiles :
                                  q.userId = equip[e].userId \/ q.id = pid}}
                    \cup {q \in profiles :
                             q.userId # equip[e].userId /\ q.id # pid}
                /\ equip' = [equip EXCEPT ![e].pc = "committed"]
    /\ UNCHANGED <<now, use, db, req, retry, equipped, nextId>>

\* The transaction of activateCharacterProfile: updateMany deactivates the
\* other profiles of the user with the gameId read before, update activates
\* the profile; the update fails, and the transaction rolls back, when the
\* profile was deleted meanwhile.  The statements run under row locks.
activateCommit(e) ==
    /\ equip[e].pc = "activate"
    /\ LET pid    == equip[e].profileId
           gameId == (CHOOSE p \in equip[e].rows : TRUE).gameId
           others == {q \in profiles :
                         /\ q.userId = equip[e].userId
                         /\ q.gameId = gameId
                         /\ q.id # pid}
       IN  IF ~\E p \in profiles : p.id = pid
           THEN /\ equip' = [equip EXCEPT ![e].pc = "rejected",
                                          ![e].kind = "Internal",
                                          ![e].error = "RecordNotFound"]
                /\ UNCHANGED profiles
           ELSE /\ profiles' =
                    {[p EXCEPT !.isActive = (p.id = pid)] :
                        p \in others \cup {q \in profiles : q.id = pid}}
                    \cup {q \in profiles : q \notin others /\ q.id # pid}
                /\ equip' = [equip EXCEPT ![e].pc = "committed"]
    /\ UNCHANGED <<now, use, db, req, retry, equipped, nextId>>

\* Mutant: an active profile is not deleted.
deleteFindRejectsActive(e, u, pid) ==
    /\ equip[e].pc = "idle"
    /\ u \in registered
    /\ LET call == [NoEquip EXCEPT !.op = "deleteCharacterProfile",
                                   !.userId = u, !.profileId = pid]
       IN  equip' = [equip EXCEPT ![e] =
                IF ProfileOf(u, pid) = {}
                THEN [call EXCEPT !.pc = "rejected", !.kind = "NotFound",
                                  !.error = "ProfileNotFound"]
                ELSE IF \E p \in ProfileOf(u, pid) : p.isActive
                THEN [call EXCEPT !.pc = "rejected", !.kind = "BadRequest",
                                  !.error = "ActiveProfile"]
                ELSE [call EXCEPT !.pc = "delete_profile",
                                  !.rows = ProfileOf(u, pid)]]
    /\ UNCHANGED <<now, use, db, req, retry, profiles, equipped, nextId>>

\* deleteCharacterProfile up to the delete: the profile is looked up.
deleteFind(e, u, pid) ==
    /\ equip[e].pc = "idle"
    /\ u \in registered
    /\ LET call == [NoEquip EXCEPT !.op = "deleteCharacterProfile",
                                   !.userId = u, !.profileId = pid]
       IN  equip' = [equip EXCEPT ![e] =
                IF ProfileOf(u, pid) = {}
                THEN [call EXCEPT !.pc = "rejected", !.kind = "NotFound",
                                  !.error = "ProfileNotFound"]
                ELSE [call EXCEPT !.pc = "delete_profile",
                                  !.rows = ProfileOf(u, pid)]]
    /\ UNCHANGED <<now, use, db, req, retry, profiles, equipped, nextId>>

\* The equipped rows that go with a deleted profile: the relation of
\* CharacterEquippedItem to its profile cascades on delete.
CascadeOf(pid) == {x \in equipped : x.profileId = pid}

\* characterProfile.delete({ id }): the profile goes, and by cascade its
\* equipped rows; it waits for equipped rows another transaction has
\* locked, and fails when the profile is gone.  The request keeps the
\* profile it found and the rows that went with it.
deleteCommit(e) ==
    /\ equip[e].pc = "delete_profile"
    /\ LET cascade == CascadeOf(equip[e].profileId)
       IN  /\ cascade \cap LockedEquipped(e) = {}
           /\ IF \E p \in profiles : p.id = equip[e].profileId
              THEN /\ profiles' =
                        {p \in profiles : p.id # equip[e].profileId}
                   /\ equipped' = equipped \ cascade
                   /\ equip' = [equip EXCEPT ![e].pc = "committed",
                                             ![e].rows = @ \cup cascade]
              ELSE /\ equip' = [equip EXCEPT ![e].pc = "rejected",
                                             ![e].kind = "Internal",
                                             ![e].error = "RecordNotFound"]
                   /\ UNCHANGED <<profiles, equipped>>
    /\ UNCHANGED <<now, use, db, req, retry, nextId>>

\* The response is sent; the slot is free for the next request.
equipReturn(e) ==
    /\ equip[e].pc \in {"committed", "rejected"}
    /\ equip' = [equip EXCEPT ![e] = NoEquip]
    /\ UNCHANGED <<now, use, db, req, retry, profiles, equipped, nextId>>

----------------------------------------------------------------------------
(* createCharacterProfile and updateCharacterProfile, statement by statement *)

\* The profiles of user u in the game (or platform-wide) under the name,
\* other than profile pid: the findFirst of the duplicate-name checks.
NameTaken(u, name, gameId, pid) ==
    \E p \in profiles :
        p.userId = u /\ p.name = name /\ p.gameId = gameId /\ p.id # pid

\* createCharacterProfile up to its write: the game and the name check.
profileCreateFind(e, u, name, gameId) ==
    /\ equip[e].pc = "idle"
    /\ u \in registered
    /\ nextId.profile + Cardinality({x \in EquipReqs :
            equip[x].pc = "create_profile"}) < MaxProfiles
    /\ LET call == [NoEquip EXCEPT !.op = "createCharacterProfile",
                                   !.userId = u, !.name = name,
                                   !.gameId = gameId]
       IN  equip' = [equip EXCEPT ![e] =
                IF gameId # "" /\ gameId \notin Games
                THEN [call EXCEPT !.pc = "rejected", !.kind = "BadRequest",
                                  !.error = "GameNotFound"]
                ELSE IF NameTaken(u, name, gameId, 0)
                THEN [call EXCEPT !.pc = "rejected", !.kind = "Conflict",
                                  !.error = "NameExists"]
                ELSE [call EXCEPT !.pc = "create_profile"]]
    /\ UNCHANGED <<now, use, db, req, retry, profiles, equipped, nextId>>

\* characterProfile.create: the row is written as the request named it.
profileCreateInsert(e) ==
    /\ equip[e].pc = "create_profile"
    /\ profiles' = profiles \cup
            {[id |-> nextId.profile + 1, userId |-> equip[e].userId,
              name |-> equip[e].name, gameId |-> equip[e].gameId,
              isActive |-> TRUE]}
    /\ nextId' = [nextId EXCEPT !.profile = @ + 1]
    /\ equip' = [equip EXCEPT ![e].pc = "committed",
                              ![e].profileId = nextId.profile + 1]
    /\ UNCHANGED <<now, use, db, req, retry, equipped>>

\* updateCharacterProfile up to its write: the profile of the user, and the
\* name check when the request carries a name other than the current one.
profileRenameFind(e, u, pid, name) ==
    /\ equip[e].pc = "idle"
    /\ u \in registered
    /\ LET call == [NoEquip EXCEPT !.op = "updateCharacterProfile",
                                   !.userId = u, !.profileId = pid,
                                   !.name = name]
           existingProfile == CHOOSE p \in ProfileOf(u, pid) : TRUE
       IN  equip' = [equip EXCEPT ![e] =
                IF ProfileOf(u, pid) = {}
                THEN [call EXCEPT !.pc = "rejected", !.kind = "NotFound",
                                  !.error = "ProfileNotFound"]
                ELSE IF /\ name # ""
                        /\ name # existingProfile.name
                        /\ NameTaken(u, name, existingProfile.gameId, pid)
                THEN [call EXCEPT !.pc = "rejected", !.kind = "Conflict",
                                  !.error = "NameExists"]
                ELSE [call EXCEPT !.pc = "update_profile",
                                  !.rows = ProfileOf(u, pid)]]
    /\ UNCHANGED <<now, use, db, req, retry, profiles, equipped, nextId>>

\* characterProfile.update({ id }): the name is written when the request
\* carries one; the update fails when the profile was deleted meanwhile.
profileRenameUpdate(e) ==
    /\ equip[e].pc = "update_profile"
    /\ LET pid == equip[e].profileId
       IN  IF ~\E p \in profiles : p.id = pid
           THEN /\ equip' = [equip EXCEPT ![e].pc = "rejected",
                                          ![e].kind = "Internal",
                                          ![e].error = "RecordNotFound"]
                /\ UNCHANGED profiles
           ELSE /\ profiles' =
                    {IF p.id = pid /\ equip[e].name # ""
                     THEN [p EXCEPT !.name = equip[e].name]
                     ELSE p : p \in profiles}
                /\ equip' = [equip EXCEPT ![e].pc = "committed"]
    /\ UNCHANGED <<now, use, db, req, retry, equipped, nextId>>

----------------------------------------------------------------------------
(* Account creation and the clock *)

\* UsersService.create: the user and its wallet with the starting gems.
Register(u) ==
    /\ u \notin registered
    /\ registered' = registered \cup {u}
    /\ balance' = [balance EXCEPT ![u] = StartingGems]
    /\ UNCHANGED <<now, use, walletTx, purchases, purchaseItems, inventory,
                   fulfillments, req, retry, characters>>

Tick ==
    /\ \E d \in TickSteps :
          /\ now + d <= MaxTime
          /\ now' = now + d
    /\ UNCHANGED <<db, req, retry, use, characters>>

----------------------------------------------------------------------------

Init ==
    /\ now = 0
    /\ registered = {}
    /\ balance = [u \in Users |-> 0]
    /\ walletTx = <<>>
    /\ purchases = <<>>
    /\ purchaseItems = <<>>
    /\ inventory = <<>>
    /\ fulfillments = <<>>
    /\ req = [r \in Reqs |-> NoRequest]
    /\ retry = [t \in RetryReqs |-> NoRetry]
    /\ profiles = {}
    /\ equipped = {}
    /\ nextId = [profile |-> 0, equipped |-> 0]
    /\ equip = [e \in EquipReqs |-> NoEquip]
    /\ use = [v \in UseReqs |-> NoUse]

\* The steps of the requests in slots R, of users U, carrying lists from L;
\* no request starts once orders and requests in flight number maxOrders.
NextOf(R, U, L, maxOrders) ==
    \/ \E u \in U : Register(u)
    \/ \E r \in R :
          /\ req[r].pc = "idle"
          /\ Len(purchases) + Cardinality(InFlight) < maxOrders
          /\ \E u \in U, items \in L, key \in IdempotencyKeys :
                Begin(r, u, items, key)
    \/ \E r \in R : PreCheck(r)
    \/ \E r \in R : validateNonConsumableOwnership(r)
    \/ \E r \in R : DebitWallet(r)
    \/ \E r \in R : CommitPurchase(r)
    \/ \E r \in R : AbortTransaction(r)
    \/ \E r \in R : Return(r)
    \/ Tick

\* Two concurrent requests of one user.
Next == NextOf(Reqs, Buyers, ConcurrentLists, MaxOrders)

Spec == Init /\ [][Next]_vars

\* The item lists of the requests whose progress is followed: one the wallet
\* affords twice, one it affords once, a gem pack, and one that is rejected
\* unseen.
FairLists ==
    { <<Line("card", 1)>>, <<Line("sword", 1), Line("potion", 1)>>,
      <<Line("gempack", 1)>>, <<Line("ghost", 1)>> }

\* Two concurrent requests of one user without a key and without the clock.
NextFair ==
    \/ \E u \in Buyers : Register(u)
    \/ \E r \in Reqs :
          /\ req[r].pc = "idle"
          /\ Len(purchases) + Cardinality(InFlight) < MaxOrders
          /\ \E u \in Buyers, items \in FairLists : Begin(r, u, items, "")
    \/ \E r \in Reqs : PreCheck(r)
    \/ \E r \in Reqs : validateNonConsumableOwnership(r)
    \/ \E r \in Reqs : DebitWallet(r)
    \/ \E r \in Reqs : CommitPurchase(r)
    \/ \E r \in Reqs : AbortTransaction(r)
    \/ \E r \in Reqs : Return(r)

\* A request that has started runs on: the handler is a chain of awaited
\* calls that nothing suspends.  The update of the wallet waits in the queue
\* of the row lock, so it is served once the lock has been free often
\* enough, however many later requests take the lock in between.  Nothing
\* forces a new request, a storage failure or the sending of the response.
SpecFair ==
    /\ Init
    /\ [][NextFair]_vars
    /\ \A r \in Reqs :
          /\ WF_vars(PreCheck(r))
          /\ WF_vars(validateNonConsumableOwnership(r))
          /\ SF_vars(DebitWallet(r))
          /\ WF_vars(CommitPurchase(r))

\* The item lists bought before items are used: one potion, two potions,
\* the sword.
UseLists ==
    { <<Line("potion", 1)>>, <<Line("potion", 2)>>, <<Line("sword", 1)>> }

\* The purchases of the buyer one at a time, and the steps of the useItem
\* requests in slots V.
NextUseOf(V) ==
    \/ \E u \in Buyers : Register(u)
    \/ /\ req["r1"].pc = "idle"
       /\ Len(purchases) < MaxOrdersSeq
       /\ \E u \in Buyers, items \in UseLists : Begin("r1", u, items, "")
    \/ PreCheck("r1")
    \/ validateNonConsumableOwnership("r1")
    \/ DebitWallet("r1")
    \/ CommitPurchase("r1")
    \/ Return("r1")
    \/ \E v \in V :
          /\ use[v].pc = "idle"
          /\ \E u \in Buyers, itemId \in {"potion", "sword"} :
                useFind(v, u, itemId)
    \/ \E v \in V : useUpdate(v)
    \/ \E v \in V : useReturn(v)

\* Two concurrent useItem requests.
NextUse == NextUseOf(UseReqs)

SpecUse == Init /\ [][NextUse]_vars

\* One request at a time of one user, over every item list.
NextSeq == NextOf({"r1"}, Buyers, ItemLists, MaxOrdersSeq)

SpecSeq == Init /\ [][NextSeq]_vars

\* The item lists of the purchases that stock and restock a consumable: the
\* gem pack refills the wallet between them.
StockLists ==
    { <<Line("potion", 1)>>, <<Line("potion", 2)>>,
      <<Line("potion", 1), Line("gempack", 1)>>, <<Line("gempack", 2)>> }

\* The purchases of the buyer one at a time and the useItem request on the
\* potion one at a time.
NextStock ==
    \/ \E u \in Buyers : Register(u)
    \/ /\ req["r1"].pc = "idle"
       /\ Len(purchases) < MaxOrders
       /\ \E u \in Buyers, items \in StockLists : Begin("r1", u, items, "")
    \/ PreCheck("r1")
    \/ validateNonConsumableOwnership("r1")
    \/ DebitWallet("r1")
    \/ CommitPurchase("r1")
    \/ Return("r1")
    \/ /\ use["v1"].pc = "idle"
       /\ \E u \in Buyers : useFind("v1", u, "potion")
    \/ useUpdate("v1")
    \/ useReturn("v1")

SpecStock == Init /\ [][NextStock]_vars

\* The purchases that leave fulfillments to deliver.
RetryLists ==
    { <<Line("card", 1), Line("shirt", 1)>>,
      <<Line("potion", 1), Line("card", 1)>> }

\* The purchase ids a retry may name.
RetryIds == {"p1", "p2", "p3"}

\* The steps of the retry requests in slots T and of the delivery worker.
NextRetryOf(T) ==
    \/ \E t \in T, u \in Users, pid \in RetryIds : retryFind(t, u, pid)
    \/ \E t \in T : retryUpdate(t)
    \/ \E t \in T : retryReturn(t)
    \/ \E i \in DOMAIN fulfillments, outcome \in {"COMPLETED", "FAILED"} :
          DeliveryReport(i, outcome)

\* Purchases of one user, one retry request at a time of either user, and
\* the worker.
NextRetry ==
    \/ NextOf({"r1"}, Buyers, RetryLists, MaxOrdersSeq)
    \/ \E u \in Users : Register(u)
    \/ NextRetryOf({"t1"})

SpecRetry == Init /\ [][NextRetry]_vars

\* Two orders of one user, of an e-mailed card and of a card with a gem
\* pack, one retry request at a time of either user, and the worker.
NextOrders ==
    \/ \E u \in Users : Register(u)
    \/ /\ req["r1"].pc = "idle"
       /\ Len(purchases) < MaxOrders
       /\ \E u \in Buyers,
             items \in {<<Line("card", 1)>>,
                        <<Line("card", 1), Line("gempack", 1)>>} :
                Begin("r1", u, items, "")
    \/ PreCheck("r1")
    \/ validateNonConsumableOwnership("r1")
    \/ DebitWallet("r1")
    \/ CommitPurchase("r1")
    \/ Return("r1")
    \/ NextRetryOf({"t1"})

SpecOrders == Init /\ [][NextOrders]_vars

\* One order of an e-mailed card, two retry requests of the buyer on it that
\* may overlap, and the worker.
NextRetryRace ==
    \/ \E u \in Buyers : Register(u)
    \/ /\ req["r1"].pc = "idle"
       /\ Len(purchases) < MaxOrdersSeq
       /\ \E u \in Buyers : Begin("r1", u, <<Line("card", 1)>>, "")
    \/ PreCheck("r1")
    \/ validateNonConsumableOwnership("r1")
    \/ DebitWallet("r1")
    \/ CommitPurchase("r1")
    \/ Return("r1")
    \/ NextRetryOf(RetryReqs)

SpecRetryRace == Init /\ [][NextRetryRace]_vars

\* The purchases that leave items to equip.
EquipLists ==
    { <<Line("sword", 1), Line("shirt", 1)>>,
      <<Line("sword", 1), Line("potion", 1)>> }

EquipItemIds == {"sword", "shirt", "potion"}

\* The steps of the requests on characters in slots E, by users U, naming
\* profiles P, items I and slots S: profiles of the games G are created, and
\* no equipItem starts once MaxEquips rows have been created or are about to
\* be.
NextEquipOf(E, U, G, P, I, S) ==
    \/ \E u \in Buyers, name \in ProfileNames, gameId \in G :
          createCharacterProfile(u, name, gameId)
    \/ \E e \in E :
          /\ equip[e].pc = "idle"
          /\ nextId.equipped + Cardinality({x \in EquipReqs :
                    equip[x].pc \in {"tx_delete", "tx_create"}}) < MaxEquips
          /\ \E u \in U, pid \in P, itemId \in I, slot \in S :
                equipBegin(e, u, pid, itemId, slot)
    \/ \E e \in E : equipDelete(e)
    \/ \E e \in E : equipCreate(e)
    \/ \E e \in E :
          /\ equip[e].pc = "idle"
          /\ \E u \in U, pid \in P :
                \/ \E itemId \in I : unequipFind(e, u, pid, "item", itemId)
                \/ \E slot \in S \ {""} :
                      unequipFind(e, u, pid, "slot", slot)
    \/ \E e \in E : unequipDelete(e)
    \/ \E e \in E : equipReturn(e)

\* The purchases of the user, one at a time, without a key.
NextShop ==
    \/ \E u \in Users : Register(u)
    \/ /\ req["r1"].pc = "idle"
       /\ Len(purchases) < MaxOrdersSeq
       /\ \E u \in Buyers, items \in EquipLists : Begin("r1", u, items, "")
    \/ PreCheck("r1")
    \/ validateNonConsumableOwnership("r1")
    \/ DebitWallet("r1")
    \/ CommitPurchase("r1")
    \/ Return("r1")

\* Two concurrent requests of the user on its first profile.
NextEquip ==
    \/ NextShop
    \/ NextEquipOf(EquipReqs, Buyers, {"g1"}, {1}, {"sword", "shirt"},
                   {"s1", "s2"})

SpecEquip == Init /\ [][NextEquip]_vars

\* One request at a time of the user, over its profiles (of a game and
\* platform-wide), every item and slot.
NextEquipSeq ==
    \/ NextShop
    \/ NextEquipOf({"e1"}, Buyers, {"g1", ""}, 1..MaxProfiles,
                   EquipItemIds, Slots)

SpecEquipSeq == Init /\ [][NextEquipSeq]_vars

\* Requests one at a time on profiles of every game and platform-wide, for
\* an item of game g1 and an item without a game, the slot left to the item.
NextScopes ==
    \/ NextShop
    \/ NextEquipOf({"e1"}, Buyers, Games \cup {""}, 1..MaxProfiles,
                   {"sword", "shirt"}, {""})

SpecScopes == Init /\ [][NextScopes]_vars

\* The names of profiles where one partition holds several profiles.
AllProfileNames == {"hero", "mage"}

\* The operations on profiles, one request at a time: profiles of the buyer
\* under two names for a game and platform-wide, one profile of the other
\* user, activation and deletion.
NextProfiles ==
    \/ \E u \in Users : Register(u)
    \/ \E name \in AllProfileNames, gameId \in {"g1", ""} :
          \E u \in Buyers : createCharacterProfile(u, name, gameId)
    \/ \E u \in Users \ Buyers : createCharacterProfile(u, "hero", "g1")
    \/ /\ equip["e1"].pc = "idle"
       /\ \E u \in Users, pid \in 1..MaxProfiles : activateFind("e1", u, pid)
    \/ activateCommit("e1")
    \/ /\ equip["e1"].pc = "idle"
       /\ \E u \in Users, pid \in 1..MaxProfiles : deleteFind("e1", u, pid)
    \/ deleteCommit("e1")
    \/ equipReturn("e1")

SpecProfiles == Init /\ [][NextProfiles]_vars

\* The names a rename may carry: "" when the request carries none.
RenameNames == AllProfileNames \cup {""}

\* The create, rename and delete requests of the buyer in slots E, statement
\* by statement, for profiles of one game and platform-wide.
NextNamesOf(E) ==
    \/ \E u \in Buyers : Register(u)
    \/ \E e \in E :
          /\ equip[e].pc = "idle"
          /\ \E u \in Buyers, name \in AllProfileNames, gameId \in {"g1", ""} :
                profileCreateFind(e, u, name, gameId)
    \/ \E e \in E : profileCreateInsert(e)
    \/ \E e \in E :
          /\ equip[e].pc = "idle"
          /\ \E u \in Buyers, pid \in 1..MaxProfiles, name \in RenameNames :
                profileRenameFind(e, u, pid, name)
    \/ \E e \in E : profileRenameUpdate(e)
    \/ \E e \in E : equipReturn(e)

\* Two requests that may overlap.
NextNames == NextNamesOf(EquipReqs)

SpecNames == Init /\ [][NextNames]_vars

\* One request at a time.
NextNamesSeq == NextNamesOf({"e1"})

SpecNamesSeq == Init /\ [][NextNamesSeq]_vars

\* No request is in progress.
Quiet ==
    /\ \A r \in Reqs : req[r].pc = "idle"
    /\ \A t \in RetryReqs : retry[t].pc = "idle"
    /\ \A e \in EquipReqs : equip[e].pc = "idle"
    /\ \A v \in UseReqs : use[v].pc = "idle"

\* The one order of each account: the potion for the first, an e-mailed card
\* with the sword for the second.
IsolationList ==
    [u1 |-> <<Line("potion", 1)>>,
     u2 |-> <<Line("card", 1), Line("sword", 1)>>]

\* Every operation of both accounts, one request at a time, each naming any
\* order and any profile, and the worker reporting failed deliveries; each
\* account orders once, and one profile is created per account.
NextIsolation ==
    \/ \E u \in Users : Register(u)
    \/ /\ Quiet
       /\ \E u \in Users :
             /\ \A i \in DOMAIN purchases : purchases[i].userId # u
             /\ Begin("r1", u, IsolationList[u], "")
    \/ PreCheck("r1")
    \/ validateNonConsumableOwnership("r1")
    \/ DebitWallet("r1")
    \/ CommitPurchase("r1")
    \/ Return("r1")
    \/ /\ Quiet
       /\ \E u \in Users, pid \in RetryIds : retryFind("t1", u, pid)
    \/ retryUpdate("t1")
    \/ retryReturn("t1")
    \/ \E i \in DOMAIN fulfillments : DeliveryReport(i, "FAILED")
    \/ /\ Quiet
       /\ nextId.profile < Cardinality(Users)
       /\ \E u \in Users : profileCreateFind("e1", u, "hero", "g1")
    \/ profileCreateInsert("e1")
    \/ /\ Quiet
       /\ nextId.equipped < MaxEquips
       /\ \E u \in Users, pid \in 1..MaxProfiles :
             equipBegin("e1", u, pid, "sword", "")
    \/ equipDelete("e1")
    \/ equipCreate("e1")
    \/ /\ Quiet
       /\ \E u \in Users, pid \in 1..MaxProfiles :
             unequipFind("e1", u, pid, "item", "sword")
    \/ unequipDelete("e1")
    \/ /\ Quiet
       /\ \E u \in Users, pid \in 1..MaxProfiles : activateFind("e1", u, pid)
    \/ activateCommit("e1")
    \/ /\ Quiet
       /\ \E u \in Users, pid \in 1..MaxProfiles : deleteFind("e1", u, pid)
    \/ deleteCommit("e1")
    \/ equipReturn("e1")
    \/ /\ Quiet
       /\ \E u \in Users : useFind("v1", u, "potion")
    \/ useUpdate("v1")
    \/ useReturn("v1")

SpecIsolation == Init /\ [][NextIsolation]_vars

\* Deletion of profiles that hold equipped items: the purchase of the shirt
\* by the buyer, two profiles for a game and a platform-wide one, equipItem
\* of the shirt, activation and deletion, one request at a time.
NextWardrobe ==
    \/ \E u \in Buyers : Register(u)
    \/ /\ req["r1"].pc = "idle"
       /\ Len(purchases) < MaxOrdersSeq
       /\ \E u \in Buyers : Begin("r1", u, <<Line("shirt", 1)>>, "")
    \/ PreCheck("r1")
    \/ validateNonConsumableOwnership("r1")
    \/ DebitWallet("r1")
    \/ CommitPurchase("r1")
    \/ Return("r1")
    \/ \E u \in Buyers, name \in AllProfileNames :
          createCharacterProfile(u, name, "g1")
    \/ \E u \in Buyers : createCharacterProfile(u, "hero", "")
    \/ /\ equip["e1"].pc = "idle"
       /\ nextId.equipped < MaxEquips
       /\ \E u \in Buyers, pid \in 1..MaxProfiles :
             equipBegin("e1", u, pid, "shirt", "")
    \/ equipDelete("e1")
    \/ equipCreate("e1")
    \/ /\ equip["e1"].pc = "idle"
       /\ \E u \in Buyers, pid \in 1..MaxProfiles :
             activateFind("e1", u, pid)
    \/ activateCommit("e1")
    \/ /\ equip["e1"].pc = "idle"
       /\ \E u \in Buyers, pid \in 1..MaxProfiles : deleteFind("e1", u, pid)
    \/ deleteCommit("e1")
    \/ equipReturn("e1")

SpecWardrobe == Init /\ [][NextWardrobe]_vars

\* Equips by both users on the profiles of the buyer, of items they have
\* bought, some used up by useItem; one request of a kind at a time.
NextArmoury ==
    \/ \E u \in Users : Register(u)
    \/ /\ req["r1"].pc = "idle"
       /\ Len(purchases) < MaxOrders
       /\ \E u \in Users, items \in EquipLists : Begin("r1", u, items, "")
    \/ PreCheck("r1")
    \/ validateNonConsumableOwnership("r1")
    \/ DebitWallet("r1")
    \/ CommitPurchase("r1")
    \/ Return("r1")
    \/ NextEquipOf({"e1"}, Users, {"g1"}, 1..MaxProfiles,
                   EquipItemIds, Slots)
    \/ /\ use["v1"].pc = "idle"
       /\ \E u \in Buyers : useFind("v1", u, "potion")
    \/ useUpdate("v1")
    \/ useReturn("v1")

SpecArmoury == Init /\ [][NextArmoury]_vars

\* One request at a time, of either user.
NextAccounts == NextOf({"r1"}, Users, ConcurrentLists, MaxOrders)

SpecAccounts == Init /\ [][NextAccounts]_vars

----------------------------------------------------------------------------
(* Vocabulary of the properties *)

\* Request r takes the step that commits its purchase.
Commits(r) == req[r].pc = "tx_write" /\ req'[r].pc = "committed"

\* Request r takes the step that ends it in a rejection.
Rejects(r) == req[r].pc # "rejected" /\ req'[r].pc = "rejected"

\* The instant currency grant of a list of lines, from the catalog.
GrantOf(items) ==
    SumSeq([i \in DOMAIN items |->
        IF Item(items[i].itemId).deliveryType = "FUNCTIONAL"
           /\ Item(items[i].itemId).instant
        THEN Item(items[i].itemId).gemAmount * items[i].quantity
        ELSE 0])

LinesOfPurchase(pid) ==
    {i \in DOMAIN purchaseItems : purchaseItems[i].purchaseId = pid}

FulfillmentsOf(pid, id) ==
    {i \in DOMAIN fulfillments :
        fulfillments[i].purchaseId = pid /\ fulfillments[i].itemId = id}

LinesOf(pid, id) ==
    {i \in DOMAIN purchaseItems :
        purchaseItems[i].purchaseId = pid /\ purchaseItems[i].itemId = id}

RECURSIVE SumOver(_, _)
SumOver(S, f) ==
    IF S = {} THEN 0
    ELSE LET x == CHOOSE y \in S : TRUE IN f[x] + SumOver(S \ {x}, f)

----------------------------------------------------------------------------
(* C1 *)

\* C1: after any sequence of committed operations (purchases, gem-pack
\* purchases included, and account creation) every wallet's balance is >= 0.
BalanceNeverNegative == \A u \in Users : balance[u] >= 0

\* A purchase has spent a wallet down to exactly zero.
C1Witness ==
    \E r \in Reqs :
        /\ req[r].pc = "committed"
        /\ req[r].totalCost = StartingGems
        /\ balance[UserOf(r)] = 0

----------------------------------------------------------------------------
(* C2 *)

\* C2: of concurrent requests of one account that all passed the pre-check,
\* a request whose debit would make the balance negative is rejected and
\* leaves no row behind, and a request that commits finds the committed
\* balance covering its total, so no commit drives the balance below zero.
ConcurrentDebitsNeverOverdraw ==
    [][\A r \in Reqs :
          /\ ( /\ req[r].pc = "tx_debit"
               /\ req'[r] # req[r]
               /\ balance[UserOf(r)] < req[r].totalCost )
             => (req'[r].pc = "rejected" /\ db' = db)
          /\ Commits(r) =>
                /\ balance[UserOf(r)] >= req[r].totalCost
                /\ balance'[UserOf(r)] >= 0]_vars

\* Two requests of one account passed the pre-check together; one committed
\* and the other was rejected by the check after the decrement.
C2Witness ==
    \E r1 \in Reqs, r2 \in Reqs :
        /\ r1 # r2
        /\ UserOf(r1) = UserOf(r2)
        /\ req[r1].pc = "committed"
        /\ req[r2].pc = "rejected"
        /\ req[r2].error = "InsufficientGemsInTx"

----------------------------------------------------------------------------
(* C3 *)

\* C3 as stated: a purchase with valid items and total <= balance that goes
\* through leaves balance = old balance - total, one new order and one
\* fulfillment per line.
PurchaseDebitsExactlyTotal ==
    [][\A r \in Reqs : Commits(r) =>
          /\ balance'[UserOf(r)] = balance[UserOf(r)] - req[r].totalCost
          /\ Len(purchases') = Len(purchases) + 1
          /\ Len(fulfillments') = Len(fulfillments) + Len(req[r].items)]_vars

\* C3 amended: the purchase debits its total exactly once (one DEBIT row of
\* that amount) and the new balance is the old balance minus the total plus
\* the instant currency grants of its lines; exactly one order is created
\* and exactly one fulfillment per line.
PurchaseDebitsTotalNetOfGrants ==
    [][\A r \in Reqs : Commits(r) =>
          LET u   == UserOf(r)
              pid == purchases'[Len(purchases')].id
          IN  /\ balance'[u] =
                    balance[u] - req[r].totalCost + GrantOf(req[r].items)
              /\ Len(purchases') = Len(purchases) + 1
              /\ Cardinality({i \in DOMAIN walletTx' :
                     /\ i > Len(walletTx)
                     /\ walletTx'[i].type = "DEBIT"
                     /\ walletTx'[i].amount = req[r].totalCost}) = 1
              /\ Cardinality({i \in DOMAIN walletTx' :
                     i > Len(walletTx) /\ walletTx'[i].type = "DEBIT"}) = 1
              /\ Len(fulfillments') = Len(fulfillments) + Len(req[r].items)
              /\ \A i \in DOMAIN req[r].items :
                    Cardinality({k \in DOMAIN fulfillments' :
                        /\ fulfillments'[k].purchaseId = pid
                        /\ fulfillments'[k].itemId = req[r].items[i].itemId}) = 1]_vars

\* A purchase of two lines with a positive total has committed.
C3Witness ==
    \E r \in Reqs :
        /\ req[r].pc = "committed"
        /\ Len(req[r].items) = 2
        /\ req[r].totalCost > 0
        /\ balance[UserOf(r)] = StartingGems - req[r].totalCost

----------------------------------------------------------------------------
(* C4 *)

\* C4: a request whose total exceeds the balance read by the pre-check is
\* rejected there, and no row is created and the balance is unchanged.
InsufficientFundsRejectedWithoutEffect ==
    [][\A r \in Reqs :
          ( /\ req[r].pc = "precheck"
            /\ req'[r] # req[r]
            /\ req[r].totalCost > balance[UserOf(r)] )
          => /\ req'[r].pc = "rejected"
             /\ req'[r].kind = "BadRequest"
             /\ db' = db]_vars

\* A request was rejected by the pre-check.
C4Witness ==
    \E r \in Reqs :
        /\ req[r].pc = "rejected"
        /\ req[r].error = "InsufficientGems"
        /\ req[r].totalCost > balance[UserOf(r)]

----------------------------------------------------------------------------
(* C5 *)

\* The whole effect of the purchase of request r, and nothing less.
WholePurchaseApplied(r) ==
    LET u     == UserOf(r)
        items == req[r].items
        pid   == purchases'[Len(purchases')].id
    IN  /\ Len(purchases') = Len(purchases) + 1
        /\ purchases'[Len(purchases')].userId = u
        /\ purchases'[Len(purchases')].status = "COMPLETED"
        /\ balance'[u] = balance[u] - req[r].totalCost + GrantOf(items)
        /\ Len(purchaseItems') = Len(purchaseItems) + Len(items)
        /\ Len(fulfillments') = Len(fulfillments) + Len(items)
        /\ \E k \in DOMAIN walletTx' :
              /\ k > Len(walletTx)
              /\ walletTx'[k].type = "DEBIT"
              /\ walletTx'[k].referenceId = pid
        /\ \A i \in DOMAIN items :
              ~SkipsInventory(items[i].itemId) =>
                  \E k \in DOMAIN inventory' :
                      /\ inventory'[k].userId = u
                      /\ inventory'[k].itemId = items[i].itemId
                      /\ inventory'[k].quantity >= items[i].quantity

\* C5: createPurchase is all-or-nothing: a request that is rejected at any
\* step changes no table, and the tables change only by a commit that
\* applies the whole purchase (or by the creation of an account), so no
\* state holds a part of a purchase.
PurchaseAllOrNothing ==
    [][/\ \A r \in Reqs : Rejects(r) => db' = db
       /\ db' # db =>
            \/ \E r \in Reqs : Commits(r) /\ WholePurchaseApplied(r)
            \/ /\ registered' # registered
               /\ <<walletTx, purchases, purchaseItems, inventory, fulfillments>>' =
                  <<walletTx, purchases, purchaseItems, inventory, fulfillments>>]_vars

\* A transaction failed after its wallet decrement and was rolled back.
C5Witness ==
    \E r \in Reqs :
        /\ req[r].pc = "rejected"
        /\ req[r].error = "UniqueConstraint"
        /\ req[r].totalCost > 0
        /\ req[r].newBalance = balance[UserOf(r)] - req[r].totalCost

----------------------------------------------------------------------------
(* C6 *)

\* C6: an account has at most one inventory row per NON_CONSUMABLE item, of
\* quantity 1, also after two concurrent purchases of that item.
UniqueItemOwnedOnce ==
    \A u \in Users, id \in DOMAIN StoreItems :
        Item(id).type = "NON_CONSUMABLE" =>
            /\ Cardinality(InventoryRows(u, id)) <= 1
            /\ \A k \in InventoryRows(u, id) : inventory[k].quantity = 1

\* Two requests of one account bought the same unique item at the same time:
\* one committed, the other passed the ownership check and failed on the row.
C6Witness ==
    \E r1 \in Reqs, r2 \in Reqs :
        /\ r1 # r2
        /\ UserOf(r1) = UserOf(r2)
        /\ req[r1].items = req[r2].items
        /\ req[r1].pc = "committed"
        /\ req[r2].error = "UniqueConstraint"

----------------------------------------------------------------------------
(* C7 *)

\* C7: a purchase containing a unique item the account already owns is
\* rejected with the Conflict kind.
OwnedUniqueRejectedAsConflict ==
    \A r \in Reqs :
        (req[r].pc = "rejected" /\ req[r].error = "AlreadyOwned")
            => req[r].kind = "Conflict"

----------------------------------------------------------------------------
(* C8 *)

\* C8: every purchase line has exactly one fulfillment of its order and item,
\* and every fulfillment belongs to exactly one purchase line.
OneFulfillmentPerLine ==
    /\ \A i \in DOMAIN purchaseItems :
          Cardinality(FulfillmentsOf(purchaseItems[i].purchaseId,
                                     purchaseItems[i].itemId)) = 1
    /\ \A k \in DOMAIN fulfillments :
          Cardinality(LinesOf(fulfillments[k].purchaseId,
                              fulfillments[k].itemId)) = 1

\* An order of two lines with its two fulfillments is committed.
C8Witness ==
    \E i \in DOMAIN purchaseItems, j \in DOMAIN purchaseItems :
        /\ i # j
        /\ purchaseItems[i].purchaseId = purchaseItems[j].purchaseId
        /\ Len(fulfillments) >= 2

----------------------------------------------------------------------------
(* C9 *)

OrderTotalsAgree ==
    \A i \in DOMAIN purchases :
        LET p == purchases[i]
            L == LinesOfPurchase(p.id)
            D == {k \in DOMAIN walletTx :
                    walletTx[k].referenceId = p.id /\ walletTx[k].type = "DEBIT"}
        IN  /\ SumOver(L, [k \in L |-> purchaseItems[k].totalPrice]) = p.totalAmount
            /\ \A k \in L : purchaseItems[k].totalPrice =
                    purchaseItems[k].unitPrice * purchaseItems[k].quantity
            /\ Cardinality(D) = 1
            /\ \A k \in D : /\ walletTx[k].amount = p.totalAmount
                            /\ walletTx[k].walletId = p.userId

\* C9: for every committed order the sum of its lines' totals (unit price
\* times quantity) equals the order's total, which is the amount of the
\* purchase's DEBIT row and the amount the wallet was decremented by.
OrderTotalIsLineSumAndDebit ==
    /\ []OrderTotalsAgree
    /\ [][\A r \in Reqs : Commits(r) =>
            /\ req[r].newBalance =
                  balance[UserOf(r)] - purchases'[Len(purchases')].totalAmount
            /\ balance'[UserOf(r)] = req[r].newBalance + GrantOf(req[r].items)]_vars

\* An order with a line of quantity 2 and a second line is committed.
C9Witness ==
    \E i \in DOMAIN purchaseItems, j \in DOMAIN purchaseItems :
        /\ i # j
        /\ purchaseItems[i].purchaseId = purchaseItems[j].purchaseId
        /\ purchaseItems[i].quantity = 2
        /\ purchaseItems[i].totalPrice > purchaseItems[i].unitPrice

----------------------------------------------------------------------------
(* C10 *)

\* The lines are empty, or a quantity is outside 1..100, or a NON_CONSUMABLE
\* item has a quantity other than 1.
InvalidLines(items) ==
    \/ items = <<>>
    \/ \E i \in DOMAIN items :
          \/ items[i].quantity < 1
          \/ items[i].quantity > MaxQuantity
          \/ /\ items[i].itemId \in DOMAIN StoreItems
             /\ Item(items[i].itemId).type = "NON_CONSUMABLE"
             /\ items[i].quantity # 1

\* C10: a request with such lines that the duplicate suppression lets through
\* is rejected with InvalidRequest (BadRequest).
InvalidLinesRejectedAsInvalidRequest ==
    \A r \in Reqs :
        (req[r].pc # "idle" /\ InvalidLines(req[r].items)) =>
            /\ req[r].pc = "rejected"
            /\ req[r].error = "Duplicate" \/ req[r].kind = "BadRequest"

----------------------------------------------------------------------------
(* C11 *)

\* A line references an item that does not exist or is not active.
MissingOrInactive(items) ==
    \E i \in DOMAIN items :
        \/ items[i].itemId \notin DOMAIN StoreItems
        \/ ~StoreItems[items[i].itemId].isActive

\* C11: a request with a line whose item is missing or inactive, which the
\* duplicate suppression lets through, is rejected with NotFound by the step
\* that receives it, and that step changes no row; such a request never gets
\* past validation.
MissingItemRejectedWithoutEffect ==
    /\ [](\A r \in Reqs :
            (req[r].pc # "idle" /\ MissingOrInactive(req[r].items)) =>
                /\ req[r].pc = "rejected"
                /\ req[r].error = "Duplicate" \/ req[r].kind = "NotFound")
    /\ [][\A r \in Reqs :
            ( /\ req[r].pc = "idle"
              /\ req'[r].pc # "idle"
              /\ MissingOrInactive(req'[r].items) ) => db' = db]_vars

\* A request with a valid first line and an inactive item in its second line
\* was rejected with NotFound while the account's wallet was untouched.
C11Witness ==
    \E r \in Reqs :
        /\ req[r].pc = "rejected"
        /\ req[r].kind = "NotFound"
        /\ Len(req[r].items) = 2
        /\ req[r].items[1].itemId \in DOMAIN StoreItems
        /\ StoreItems[req[r].items[1].itemId].isActive
        /\ req[r].items[2].itemId = "retired"
        /\ balance[UserOf(r)] = StartingGems
        /\ walletTx = <<>>

----------------------------------------------------------------------------
(* C12 *)

\* An order of the account was created in the last DuplicateWindow minutes.
OrderInWindow(u) ==
    \E i \in DOMAIN purchases :
        /\ purchases[i].userId = u
        /\ now - purchases[i].createdAt <= DuplicateWindow

----------------------------------------------------------------------------
(* C13 *)

\* C13: of two requests of the same account that carry the same
\* idempotencyKey at most one commits an order.
SameKeyCommitsAtMostOnce ==
    \A r1 \in Reqs, r2 \in Reqs :
        ( /\ r1 # r2
          /\ req[r1].pc = "committed"
          /\ req[r2].pc = "committed"
          /\ req[r1].userId = req[r2].userId
          /\ req[r1].idempotencyKey # "" )
        => req[r1].idempotencyKey # req[r2].idempotencyKey

----------------------------------------------------------------------------
(* C14 *)

\* The lines of a request whose item is an instant currency grant.
GrantLines(items) ==
    {i \in DOMAIN items :
        /\ StoreItems[items[i].itemId].deliveryType = "FUNCTIONAL"
        /\ StoreItems[items[i].itemId].instant
        /\ StoreItems[items[i].itemId].gemAmount > 0}

\* C14: the commit of a purchase credits the wallet, in the same step as the
\* debit, with gemAmount * quantity for each instant-grant line and writes
\* exactly one CREDIT row of that amount per such line, whose reference
\* differs from the reference of the purchase's DEBIT row; the fulfillment
\* of the line is COMPLETED.  For the free gem pack the balance rises by
\* exactly 1000 per unit.
InstantGrantCreditedOnCommit ==
    [][\A r \in Reqs : Commits(r) =>
          LET u       == UserOf(r)
              items   == req[r].items
              pid     == purchases'[Len(purchases')].id
              new     == {k \in DOMAIN walletTx' : k > Len(walletTx)}
              credits == {k \in new : walletTx'[k].type = "CREDIT"}
              debits  == {k \in new : walletTx'[k].type = "DEBIT"}
          IN  /\ Cardinality(credits) = Cardinality(GrantLines(items))
              /\ \A i \in GrantLines(items) :
                    /\ \E k \in credits :
                          /\ walletTx'[k].walletId = u
                          /\ walletTx'[k].amount =
                                StoreItems[items[i].itemId].gemAmount
                                    * items[i].quantity
                          /\ \A d \in debits :
                                walletTx'[d].referenceId
                                    # walletTx'[k].referenceId
                    /\ \A f \in DOMAIN fulfillments' :
                          ( /\ fulfillments'[f].purchaseId = pid
                            /\ fulfillments'[f].itemId = items[i].itemId )
                          => fulfillments'[f].status = "COMPLETED"
              /\ balance'[u] = balance[u] - req[r].totalCost
                    + SumOver(GrantLines(items),
                        [i \in GrantLines(items) |->
                            StoreItems[items[i].itemId].gemAmount
                                * items[i].quantity])
              /\ (items = <<Line("gempack", 1)>>) =>
                    balance'[u] = balance[u] + 1000]_vars

\* Two free gem packs bought in one line: the balance went from 1000 to 3000
\* and the ledger holds one CREDIT row of 2000.
C14Witness ==
    \E r \in Reqs :
        /\ req[r].pc = "committed"
        /\ req[r].items = <<Line("gempack", 2)>>
        /\ balance[UserOf(r)] = StartingGems + 2000
        /\ \E k \in DOMAIN walletTx :
              walletTx[k].type = "CREDIT" /\ walletTx[k].amount = 2000

----------------------------------------------------------------------------
(* C15 *)

\* C15: every row of the ledger has amount > 0; in particular a purchase
\* whose total is 0 writes no DEBIT row of amount 0.
LedgerAmountsPositive ==
    \A k \in DOMAIN walletTx : walletTx[k].amount > 0

----------------------------------------------------------------------------
(* C16 *)

\* C16: every fulfillment row a purchase creates starts as COMPLETED with
\* completedAt set when the item's delivery type is IN_GAME or FUNCTIONAL,
\* and as PENDING with completedAt unset when it is EMAIL or SHOPIFY; it
\* starts in no other status.
FulfillmentInitialStatusByDelivery ==
    [][\A r \in Reqs : Commits(r) =>
          \A f \in DOMAIN fulfillments' :
              f > Len(fulfillments) =>
                  LET row == fulfillments'[f]
                      dt  == StoreItems[row.itemId].deliveryType
                  IN  /\ dt \in {"IN_GAME", "FUNCTIONAL"} =>
                            (row.status = "COMPLETED" /\ row.completed)
                      /\ dt \in {"EMAIL", "SHOPIFY"} =>
                            (row.status = "PENDING" /\ ~row.completed)
                      /\ row.status \in {"COMPLETED", "PENDING"}
                      /\ row.deliveryType = dt]_vars

\* One purchase left a PENDING fulfillment for a SHOPIFY item and a COMPLETED
\* one for a FUNCTIONAL item.
C16Witness ==
    \E f \in DOMAIN fulfillments, g \in DOMAIN fulfillments :
        /\ fulfillments[f].purchaseId = fulfillments[g].purchaseId
        /\ fulfillments[f].deliveryType = "SHOPIFY"
        /\ fulfillments[f].status = "PENDING"
        /\ ~fulfillments[f].completed
        /\ fulfillments[g].deliveryType = "FUNCTIONAL"
        /\ fulfillments[g].status = "COMPLETED"
        /\ fulfillments[g].completed

----------------------------------------------------------------------------
(* C17 *)

\* The scenario: the account's balance is 1000 and it has no potion; request
\* r commits the purchase of two potions (CONSUMABLE, IN_GAME, priced 500).
\* n is the number of COMPLETED fulfillment rows the scenario expects.
TwoPotionsScenario(r, n) ==
    ( /\ Commits(r)
      /\ req[r].items = <<Line("potion", 2)>>
      /\ balance[UserOf(r)] = 1000
      /\ InventoryRows(UserOf(r), "potion") = {} )
    => LET u    == UserOf(r)
           pid  == purchases'[Len(purchases')].id
           rows == {k \in DOMAIN inventory' :
                       inventory'[k].userId = u
                       /\ inventory'[k].itemId = "potion"}
           ffs  == {f \in DOMAIN fulfillments' :
                       fulfillments'[f].purchaseId = pid}
       IN  /\ purchases'[Len(purchases')].totalAmount = 1000
           /\ balance'[u] = 0
           /\ Cardinality(rows) = 1
           /\ \A k \in rows : inventory'[k].quantity = 2
           /\ Cardinality(ffs) = n
           /\ \A f \in ffs : fulfillments'[f].status = "COMPLETED"

\* C17 as stated: the purchase yields total 1000, balance 0, an inventory
\* entry of quantity 2 and two fulfillment rows in status COMPLETED.
TwoPotionsTwoFulfillments ==
    [][\A r \in Reqs : TwoPotionsScenario(r, 2)]_vars

\* C17 amended: the purchase yields total 1000, balance 0, an inventory entry
\* of quantity 2 and one fulfillment row (one per order line) in status
\* COMPLETED.
TwoPotionsOneFulfillment ==
    [][\A r \in Reqs : TwoPotionsScenario(r, 1)]_vars

\* The purchase of two potions from balance 1000 has committed.
C17Witness ==
    \E r \in Reqs :
        /\ req[r].pc = "committed"
        /\ req[r].items = <<Line("potion", 2)>>
        /\ balance[UserOf(r)] = 0
        /\ Len(purchases) = 1
        /\ \E k \in InventoryRows(UserOf(r), "potion") :
              inventory[k].quantity = 2

----------------------------------------------------------------------------
(* C18 *)

\* The rows of the order in status FAILED, read off the table.
FailedRowsOf(pid) ==
    {i \in DOMAIN fulfillments :
        fulfillments[i].purchaseId = pid /\ fulfillments[i].status = "FAILED"}

\* The account has a COMPLETED order with this id.
OwnsCompletedOrder(u, pid) ==
    \E i \in DOMAIN purchases :
        /\ purchases[i].id = pid
        /\ purchases[i].userId = u
        /\ purchases[i].status = "COMPLETED"

----------------------------------------------------------------------------
(* C19 *)

----------------------------------------------------------------------------
(* C20 *)

\* C20: when requests run one after the other, an equip of item B into slot
\* S of a profile commits, leaves S holding B and nothing else, and the item
\* that occupied S before is not equipped in any slot of that profile.
EquipReplacesOccupantOfSlot ==
    [][\A e \in EquipReqs :
          (equip[e].pc = "tx_create" /\ equip'[e].pc # "tx_create") =>
              LET pid == equip[e].profileId
                  S   == equip[e].slot
                  B   == equip[e].itemId
              IN  /\ equip'[e].pc = "committed"
                  /\ \E x \in equipped' :
                        x.profileId = pid /\ x.slot = S /\ x.itemId = B
                  /\ \A x \in equipped' :
                        (x.profileId = pid /\ x.slot = S) => x.itemId = B
                  /\ \A a \in equipped :
                        (a.profileId = pid /\ a.slot = S /\ a.itemId # B) =>
                            ~\E x \in equipped' :
                                x.profileId = pid /\ x.itemId = a.itemId]_vars

\* The shirt was equipped into the slot that held the sword: the request
\* removed the sword's row, the slot holds the shirt, and the sword is not
\* equipped on the profile.
C20Witness ==
    \E e \in EquipReqs :
        /\ equip[e].pc = "committed"
        /\ equip[e].op = "equipItem"
        /\ equip[e].itemId = "shirt"
        /\ \E a \in equip[e].rows :
              a.itemId = "sword" /\ a.slot = equip[e].slot
        /\ \E x \in equipped :
              /\ x.profileId = equip[e].profileId
              /\ x.slot = equip[e].slot
              /\ x.itemId = "shirt"
        /\ ~\E x \in equipped :
              x.profileId = equip[e].profileId /\ x.itemId = "sword"

----------------------------------------------------------------------------
(* C21 *)

\* The inventory holds an item of the user that is not consumed.
OwnsItem(u, itemId) ==
    \E i \in DOMAIN inventory :
        /\ inventory[i].userId = u
        /\ inventory[i].itemId = itemId
        /\ ~inventory[i].isConsumed

\* C21: every equipped row whose item belongs to a game sits on a profile of
\* that game; an equip of an owned game item onto a profile of the user of
\* another game, or onto a platform-wide profile, is rejected as an invalid
\* request and changes nothing; an owned equippable item without a game is
\* accepted on a profile of any game and on a platform-wide profile.
ScopedItemsOnProfilesOfTheirScope ==
    /\ [](\A x \in equipped :
            Item(x.itemId).gameId # "" =>
                \E p \in profiles :
                    p.id = x.profileId /\ p.gameId = Item(x.itemId).gameId)
    /\ [][\A e \in EquipReqs :
            (equip[e].pc = "idle" /\ equip'[e].pc # "idle"
                /\ equip'[e].op = "equipItem") =>
                \A p \in ProfileOf(equip'[e].userId, equip'[e].profileId) :
                    OwnsItem(equip'[e].userId, equip'[e].itemId) =>
                        LET gameId == Item(equip'[e].itemId).gameId
                        IN  /\ (gameId # "" /\ gameId # p.gameId) =>
                                /\ equip'[e].pc = "rejected"
                                /\ equip'[e].kind = "BadRequest"
                                /\ UNCHANGED <<db, profiles, equipped>>
                            /\ (gameId = "" /\ Item(equip'[e].itemId).type
                                                  = "NON_CONSUMABLE") =>
                                equip'[e].pc = "tx_delete"]_vars

\* The shirt, an item without a game, is equipped on a profile of game g2,
\* and the equip of the sword of game g1 onto that profile was rejected.
C21Witness ==
    \E e \in EquipReqs, p \in profiles :
        /\ p.gameId = "g2"
        /\ equip[e].pc = "rejected"
        /\ equip[e].error = "Incompatible"
        /\ equip[e].itemId = "sword"
        /\ equip[e].profileId = p.id
        /\ \E x \in equipped : x.profileId = p.id /\ x.itemId = "shirt"

----------------------------------------------------------------------------
(* C22 *)

\* The profiles of the partition of p: same user, same game.
Partition(rows, p) ==
    {q \in rows : q.userId = p.userId /\ q.gameId = p.gameId}

\* C22: when activateCharacterProfile succeeds, the profile is active, no
\* other profile of its user and game is active, and every profile of
\* another game or another user is as it was.
ActivateMakesOnlyActiveOfPartition ==
    [][\A e \in EquipReqs :
          (equip[e].pc = "activate" /\ equip'[e].pc = "committed") =>
              \E p \in profiles' :
                  /\ p.id = equip[e].profileId
                  /\ p.userId = equip[e].userId
                  /\ p.isActive
                  /\ \A q \in Partition(profiles', p) :
                        q.isActive => q.id = p.id
                  /\ \A q \in profiles :
                        q \notin Partition(profiles, p) => q \in profiles'
                  /\ {q.id : q \in profiles'} = {q.id : q \in profiles}]_vars

\* An activation committed: the profile is active, another profile of the
\* same user and game is inactive, and profiles of another game and of
\* another user are active.
C22Witness ==
    \E e \in EquipReqs, p \in profiles :
        /\ equip[e].pc = "committed"
        /\ equip[e].op = "activateCharacterProfile"
        /\ p.id = equip[e].profileId
        /\ p.isActive
        /\ \E q \in Partition(profiles, p) : q.id # p.id /\ ~q.isActive
        /\ \E q \in profiles :
              q.userId = p.userId /\ q.gameId # p.gameId /\ q.isActive

----------------------------------------------------------------------------
(* C23 *)

\* C23: each partition of profiles, a user with a game or with no game, has
\* at most one active profile.
AtMostOneActivePerPartition ==
    \A p \in profiles, q \in profiles :
        (p.isActive /\ q.isActive /\ p.userId = q.userId
            /\ p.gameId = q.gameId) => p.id = q.id

----------------------------------------------------------------------------
(* C24 *)

----------------------------------------------------------------------------
(* C25 *)

\* The states of a createPurchase attempt.
Validating(r) == req[r].pc = "precheck"
Committing(r) == req[r].pc \in {"tx_own", "tx_debit", "tx_write"}
Terminal(r) == req[r].pc \in {"committed", "rejected"}

\* C25: an attempt moves from validating to committing to committed, or
\* ends rejected from validating or committing; a terminal attempt changes
\* no more, its slot is only cleared when the response is sent; and every
\* attempt that started reaches a terminal state, also when two attempts of
\* one account run together.
AttemptReachesOneTerminalState ==
    /\ [][\A r \in Reqs :
            /\ (req[r].pc = "idle" /\ req'[r].pc # "idle") =>
                    req'[r].pc \in {"precheck", "rejected"}
            /\ (Validating(r) /\ req'[r] # req[r]) =>
                    req'[r].pc \in {"tx_own", "rejected"}
            /\ (Committing(r) /\ req'[r] # req[r]) =>
                    /\ req[r].pc = "tx_own" =>
                            req'[r].pc \in {"tx_debit", "rejected"}
                    /\ req[r].pc = "tx_debit" =>
                            req'[r].pc \in {"tx_write", "rejected"}
                    /\ req[r].pc = "tx_write" =>
                            req'[r].pc \in {"committed", "rejected"}
            /\ (Terminal(r) /\ req'[r] # req[r]) =>
                    /\ req'[r] = NoRequest
                    /\ UNCHANGED db
            /\ req'[r].pc = "committed" => req'[r].kind = ""
            /\ req'[r].pc = "rejected" => req'[r].kind # ""]_vars
    /\ \A r \in Reqs : (Validating(r) \/ Committing(r)) ~> Terminal(r)

\* Two attempts of one account ran together and both ended: one committed,
\* the other was rejected inside its transaction after waiting for the
\* wallet.
C25Witness ==
    \E r1 \in Reqs, r2 \in Reqs :
        /\ req[r1].pc = "committed"
        /\ req[r2].pc = "rejected"
        /\ req[r2].error = "InsufficientGemsInTx"
        /\ req[r1].userId = req[r2].userId

----------------------------------------------------------------------------
(* C26 *)

\* C26: a purchase rejected because the balance does not cover the total,
\* by the check before the transaction or by the one inside it, carries a
\* kind of its own, which is not the kind of invalid requests.
InsufficientFundsReportedDistinctly ==
    \A r \in Reqs :
        (req[r].pc = "rejected"
            /\ req[r].error \in {"InsufficientGems", "InsufficientGemsInTx"})
        => req[r].kind \notin {"BadRequest", "NotFound", "Conflict", "Internal"}

----------------------------------------------------------------------------
(* C27 *)

\* C27: the quantity of an inventory row is never negative, whatever
\* useItem requests run together: of the concurrent calls on a row with
\* quantity n no more than n take a unit.
InventoryQuantityNeverNegative ==
    \A i \in DOMAIN inventory : inventory[i].quantity >= 0

----------------------------------------------------------------------------
(* C28 *)

\* C28: createPurchase rejects in this order: a duplicate inside the window
\* as a conflict, then an empty list or a bad quantity as an invalid
\* request, then a missing or inactive item as not found, then a total above
\* the balance; so a request with a bad quantity and a missing item is an
\* invalid request, not a not-found.
RejectionsInDocumentedOrder ==
    \A r \in Reqs :
        (req[r].pc # "idle" /\ req[r].error # "Duplicate") =>
            /\ InvalidLines(req[r].items) =>
                    req[r].pc = "rejected" /\ req[r].kind = "BadRequest"
            /\ (~InvalidLines(req[r].items)
                    /\ MissingOrInactive(req[r].items)) =>
                    req[r].pc = "rejected" /\ req[r].kind = "NotFound"
            /\ req[r].error \in {"InsufficientGems", "InsufficientGemsInTx"} =>
                    /\ ~InvalidLines(req[r].items)
                    /\ ~MissingOrInactive(req[r].items)

----------------------------------------------------------------------------
(* C29 *)

\* C29: no committed wallet transaction carries the placeholder
\* 'purchase-pending'; the commit of a purchase adds its DEBIT row with the
\* id of the new order as reference, gives its gem-pack credits the
\* reference of their gem pack, and leaves every row that was there before
\* as it was, also when two purchases of one wallet run together.
DebitReferencesItsOrder ==
    /\ [](\A i \in DOMAIN walletTx :
            walletTx[i].referenceId # "purchase-pending")
    /\ [][\A r \in Reqs :
            (req[r].pc = "tx_write" /\ req'[r].pc = "committed") =>
                LET n   == Len(walletTx)
                    pid == purchases'[Len(purchases')].id
                IN  /\ Len(purchases') = Len(purchases) + 1
                    /\ Len(walletTx') > n
                    /\ SubSeq(walletTx', 1, n) = walletTx
                    /\ walletTx'[n + 1].type = "DEBIT"
                    /\ walletTx'[n + 1].walletId = req[r].userId
                    /\ walletTx'[n + 1].referenceId = pid
                    /\ \A i \in (n + 2)..Len(walletTx') :
                          /\ walletTx'[i].type = "CREDIT"
                          /\ walletTx'[i].referenceId # pid
                          /\ \E id \in {"gempack"} :
                                walletTx'[i].referenceId = GemPackReference(id)]_vars

\* Two purchases of one wallet ran together and both committed, the second
\* one with a gem pack: each DEBIT row carries the id of its own order, and
\* the credit carries the reference of the gem pack.
C29Witness ==
    /\ \A r \in Reqs : req[r].pc = "committed"
    /\ Len(purchases) = 2
    /\ \E i \in DOMAIN walletTx, j \in DOMAIN walletTx, k \in DOMAIN walletTx :
          /\ walletTx[i].type = "DEBIT"
          /\ walletTx[i].referenceId = purchases[1].id
          /\ walletTx[j].type = "DEBIT"
          /\ walletTx[j].referenceId = purchases[2].id
          /\ j > i
          /\ walletTx[k].type = "CREDIT"
          /\ k > j
          /\ walletTx[k].referenceId = GemPackReference("gempack")

----------------------------------------------------------------------------
(* C30 *)

\* C30: a step of retryPurchase changes no order, wallet, ledger, order line
\* or inventory row, and changes a fulfillment only if it is FAILED and
\* belongs to the order named by the request, an order of the calling
\* account; and no step of any operation changes a COMPLETED fulfillment.
RetryTouchesOnlyFailedRowsOfItsOrder ==
    /\ [][\A t \in RetryReqs :
            retry'[t] # retry[t] =>
                /\ UNCHANGED <<registered, balance, walletTx, purchases,
                               purchaseItems, inventory>>
                /\ DOMAIN fulfillments' = DOMAIN fulfillments
                /\ \A i \in DOMAIN fulfillments :
                      fulfillments'[i] # fulfillments[i] =>
                          /\ fulfillments[i].status = "FAILED"
                          /\ fulfillments[i].purchaseId = retry[t].purchaseId
                          /\ OwnsCompletedOrder(retry[t].userId,
                                                retry[t].purchaseId)
                          /\ fulfillments[i].userId = retry[t].userId]_vars
    /\ [][\A i \in DOMAIN fulfillments :
            fulfillments[i].status = "COMPLETED" =>
                fulfillments'[i] = fulfillments[i]]_vars

\* A retry of an order with a FAILED and a COMPLETED fulfillment went
\* through: the first is in RETRY, the second is still COMPLETED, and the
\* FAILED fulfillment of the other order is still FAILED.
C30Witness ==
    \E t \in RetryReqs :
        /\ retry[t].pc = "done"
        /\ \E i \in DOMAIN fulfillments, j \in DOMAIN fulfillments,
              k \in DOMAIN fulfillments :
              /\ fulfillments[i].purchaseId = retry[t].purchaseId
              /\ fulfillments[i].status = "RETRY"
              /\ fulfillments[j].purchaseId = retry[t].purchaseId
              /\ fulfillments[j].status = "COMPLETED"
              /\ fulfillments[k].purchaseId # retry[t].purchaseId
              /\ fulfillments[k].status = "FAILED"

----------------------------------------------------------------------------
(* C31 *)

\* C31: when requests run one after the other, an equip of an item that
\* sits in slot S1 of the profile into another slot S2 commits and moves the
\* item: the item is then in S2 only, S1 is empty, the item that was in S2
\* is equipped nowhere on the profile, and the rows in the other slots of
\* the profile and the rows of the other profiles are as they were.
EquipIntoOtherSlotMovesItem ==
    [][\A e \in EquipReqs :
          (equip[e].pc = "tx_create" /\ equip'[e].pc # "tx_create") =>
              LET pid == equip[e].profileId
                  S2  == equip[e].slot
                  B   == equip[e].itemId
              IN  \A a \in equipped :
                      (a.profileId = pid /\ a.itemId = B /\ a.slot # S2) =>
                          /\ equip'[e].pc = "committed"
                          /\ \A x \in equipped' :
                                (x.profileId = pid /\ x.itemId = B) =>
                                    x.slot = S2
                          /\ \E x \in equipped' :
                                /\ x.profileId = pid
                                /\ x.itemId = B
                                /\ x.slot = S2
                          /\ ~\E x \in equipped' :
                                x.profileId = pid /\ x.slot = a.slot
                          /\ \A o \in equipped :
                                (o.profileId = pid /\ o.slot = S2) =>
                                    ~\E x \in equipped' :
                                        /\ x.profileId = pid
                                        /\ x.itemId = o.itemId
                                        /\ o.itemId # B
                          /\ \A o \in equipped :
                                (o.profileId # pid
                                    \/ (o.slot # S2 /\ o.slot # a.slot)) =>
                                    o \in equipped'
                          /\ \A x \in equipped' :
                                x \in equipped
                                    \/ (x.profileId = pid /\ x.slot = S2)]_vars

\* The sword sat in its own slot and the shirt in slot s1; the sword was
\* equipped into s1: both rows went, and the sword is in s1 only.
C31Witness ==
    \E e \in EquipReqs :
        /\ equip[e].pc = "committed"
        /\ equip[e].op = "equipItem"
        /\ equip[e].itemId = "sword"
        /\ equip[e].slot = "s1"
        /\ \E a \in equip[e].rows :
              a.itemId = "sword" /\ a.slot = "primary_skin"
        /\ \E o \in equip[e].rows : o.itemId = "shirt" /\ o.slot = "s1"
        /\ \A x \in equipped :
              x.profileId = equip[e].profileId =>
                  (x.itemId = "sword" /\ x.slot = "s1")

----------------------------------------------------------------------------
(* C32 *)

----------------------------------------------------------------------------
(* C33 *)

\* The equipped rows of the profile an unequip request names, by item for
\* unequipItem and by slot for unequipSlot.
MatchingRows(call) ==
    {x \in equipped :
        /\ x.profileId = call.profileId
        /\ IF call.op = "unequipItem" THEN x.itemId = call.itemId
           ELSE x.slot = call.slot}

\* C33: when requests run one after the other, unequipItem and unequipSlot
\* are rejected as not found, changing nothing, when the caller has no
\* profile with the id or the profile has no row for the item or the slot;
\* otherwise they delete the one matching row and leave every other row as
\* it was.
UnequipDeletesExactlyTheMatchingRow ==
    [][\A e \in EquipReqs :
          /\ (equip[e].pc = "idle" /\ equip'[e].pc # "idle"
                /\ equip'[e].op \in {"unequipItem", "unequipSlot"}) =>
                LET hasProfile ==
                        \E p \in profiles :
                            /\ p.id = equip'[e].profileId
                            /\ p.userId = equip'[e].userId
                IN  /\ UNCHANGED <<db, profiles, equipped>>
                    /\ IF hasProfile /\ MatchingRows(equip'[e]) # {}
                       THEN equip'[e].pc = "delete"
                       ELSE /\ equip'[e].pc = "rejected"
                            /\ equip'[e].kind = "NotFound"
          /\ (equip[e].pc = "delete" /\ equip'[e].pc # "delete") =>
                /\ equip'[e].pc = "committed"
                /\ Cardinality(MatchingRows(equip[e])) = 1
                /\ equipped' = equipped \ MatchingRows(equip[e])
                /\ UNCHANGED <<db, profiles>>]_vars

\* The row of slot s1 was removed by unequipSlot, and the other item of the
\* profile is still equipped.
C33Witness ==
    \E e \in EquipReqs :
        /\ equip[e].pc = "committed"
        /\ equip[e].op = "unequipSlot"
        /\ equip[e].slot = "s1"
        /\ equip[e].rows # {}
        /\ ~\E x \in equipped :
              x.profileId = equip[e].profileId /\ x.slot = "s1"
        /\ \E x \in equipped : x.profileId = equip[e].profileId

----------------------------------------------------------------------------
(* C34 *)

\* The CREDIT amounts minus the DEBIT amounts of the ledger rows of a wallet.
LedgerSum(u) ==
    LET rows == {i \in DOMAIN walletTx : walletTx[i].walletId = u}
    IN  SumOver(rows, [i \in rows |->
            IF walletTx[i].type = "CREDIT" THEN walletTx[i].amount
            ELSE 0 - walletTx[i].amount])

\* C34: the balance of every wallet is its starting balance plus its CREDIT
\* amounts minus its DEBIT amounts, a user without a wallet has no ledger
\* row, and every step that changes a balance of an existing wallet adds
\* ledger rows and changes none that was there.
BalanceIsStartPlusLedger ==
    /\ [](\A u \in Users :
            IF u \in registered
            THEN balance[u] = StartingGems + LedgerSum(u)
            ELSE balance[u] = 0 /\ LedgerSum(u) = 0)
    /\ [][\A u \in registered :
            balance'[u] # balance[u] =>
                /\ Len(walletTx') > Len(walletTx)
                /\ SubSeq(walletTx', 1, Len(walletTx)) = walletTx]_vars

\* A wallet has been debited by two purchases and credited by a gem pack,
\* and its ledger has a DEBIT row with an amount and a CREDIT row.
C34Witness ==
    \E u \in registered :
        /\ Len(purchases) = 2
        /\ balance[u] # StartingGems
        /\ \E i \in DOMAIN walletTx, j \in DOMAIN walletTx :
              /\ walletTx[i].walletId = u
              /\ walletTx[i].type = "DEBIT"
              /\ walletTx[i].amount > 0
              /\ walletTx[j].walletId = u
              /\ walletTx[j].type = "CREDIT"

----------------------------------------------------------------------------
(* C35 *)

\* The inventory rows of a user for an item.
EntriesOf(inv, u, id) ==
    {k \in DOMAIN inv : inv[k].userId = u /\ inv[k].itemId = id}

\* The quantity a user holds of an item: 0 without a row.
QuantityHeld(inv, u, id) ==
    LET rows == EntriesOf(inv, u, id)
    IN  SumOver(rows, [k \in rows |-> inv[k].quantity])

\* C35: the commit of a purchase raises the quantity of the buyer's inventory
\* row of every consumable line by exactly the quantity of the line, leaving
\* exactly one row for the item, and leaves the inventory without any row
\* for an instant FUNCTIONAL item of the order.
StackableLineAddsItsQuantity ==
    [][\A r \in Reqs :
          Commits(r) =>
              \A i \in DOMAIN req[r].items :
                  LET line == req[r].items[i]
                      u    == req[r].userId
                  IN  /\ (Item(line.itemId).type = "CONSUMABLE"
                          /\ ~(Item(line.itemId).deliveryType = "FUNCTIONAL"
                               /\ Item(line.itemId).instant)) =>
                            /\ Cardinality(EntriesOf(inventory', u, line.itemId)) = 1
                            /\ QuantityHeld(inventory', u, line.itemId)
                                 = QuantityHeld(inventory, u, line.itemId)
                                     + line.quantity
                      /\ (Item(line.itemId).deliveryType = "FUNCTIONAL"
                          /\ Item(line.itemId).instant) =>
                            /\ EntriesOf(inventory', u, line.itemId) = {}
                            /\ EntriesOf(inventory, u, line.itemId) = {}]_vars

\* Two orders are committed, the second with a potion line and a gem pack
\* line: the buyer's potion row was created by the first and holds the
\* quantities of both, and there is no row for the gem pack.
C35Witness ==
    /\ Len(purchases) = 2
    /\ req["r1"].pc = "committed"
    /\ req["r1"].items = <<Line("potion", 1), Line("gempack", 1)>>
    /\ \E k \in DOMAIN inventory :
          /\ inventory[k].itemId = "potion"
          /\ inventory[k].quantity = 2
    /\ EntriesOf(inventory, "u1", "gempack") = {}

----------------------------------------------------------------------------
(* C37 *)

\* C37: an inventory row is marked consumed exactly when its quantity is 0.
ConsumedExactlyAtZero ==
    \A k \in DOMAIN inventory :
        inventory[k].isConsumed <=> inventory[k].quantity = 0

----------------------------------------------------------------------------
(* C38 *)

\* The list names one itemId on more than one line.
RepeatsAnItem(items) ==
    \E i \in DOMAIN items, j \in DOMAIN items :
        i # j /\ items[i].itemId = items[j].itemId

\* C38: a createPurchase whose lines name one itemId more than once is
\* rejected by its first step, before any write, as not found (the duplicate
\* window, which is looked at before the items, answers a conflict instead
\* when it applies); so every order has at most one line and at most one
\* fulfillment per item.
RepeatedItemRejectedNotFound ==
    /\ [](\A p \in DOMAIN purchases : \A id \in ItemIds :
            /\ Cardinality(LinesOf(purchases[p].id, id)) <= 1
            /\ Cardinality(FulfillmentsOf(purchases[p].id, id)) <= 1)
    /\ [][\A r \in Reqs :
            (req[r].pc = "idle" /\ req'[r].pc # "idle"
                /\ RepeatsAnItem(req'[r].items)) =>
                /\ req'[r].pc = "rejected"
                /\ req'[r].error # "Duplicate" =>
                      /\ req'[r].kind = "NotFound"
                      /\ req'[r].error = "ItemsNotFound"
                /\ UNCHANGED db]_vars

\* A request for two lines of the potion, each valid alone and affordable
\* together, stands rejected as not found, and nothing was written.
C38Witness ==
    \E r \in Reqs :
        /\ req[r].pc = "rejected"
        /\ req[r].items = <<Line("potion", 1), Line("potion", 1)>>
        /\ req[r].kind = "NotFound"
        /\ balance[req[r].userId] = StartingGems
        /\ purchases = <<>>
        /\ inventory = <<>>

----------------------------------------------------------------------------
(* C39 *)

\* C39: every retry call that answers with success reports at least one
\* retried fulfillment, also when another retry call or the delivery worker
\* moved its FAILED rows between its check and its update.
RetrySuccessReportsRows ==
    \A t \in RetryReqs : retry[t].pc = "done" => retry[t].count >= 1

----------------------------------------------------------------------------
(* C36 *)

\* C36: no two profiles of one user in one game (or platform-wide) have the
\* same name, also when two create or rename requests with that name
\* overlap.
NoTwoProfilesShareAName ==
    \A p \in profiles, q \in profiles :
        (p.id # q.id /\ p.userId = q.userId /\ p.gameId = q.gameId) =>
            p.name # q.name

----------------------------------------------------------------------------
(* C40 *)

\* Everything stored for account u: its balance, its ledger rows, its orders
\* with their lines and fulfillments, its inventory, its profiles and the
\* equipped rows on them.
AccountState(u) ==
    LET mine == {purchases[i].id : i \in {j \in DOMAIN purchases :
                                             purchases[j].userId = u}}
        own  == {p \in profiles : p.userId = u}
    IN  << balance[u],
           {<<i, walletTx[i]>> : i \in {j \in DOMAIN walletTx :
                                           walletTx[j].walletId = u}},
           {<<i, purchases[i]>> : i \in {j \in DOMAIN purchases :
                                            purchases[j].userId = u}},
           {<<i, purchaseItems[i]>> : i \in {j \in DOMAIN purchaseItems :
                                    purchaseItems[j].purchaseId \in mine}},
           {<<i, fulfillments[i]>> : i \in {j \in DOMAIN fulfillments :
                                    fulfillments[j].purchaseId \in mine}},
           {<<i, inventory[i]>> : i \in {j \in DOMAIN inventory :
                                            inventory[j].userId = u}},
           own,
           {x \in equipped : \E p \in own : p.id = x.profileId} >>

\* The step belongs to a request of account u.
ActsFor(u) ==
    \/ \E r \in Reqs :
          req'[r] # req[r] /\ u \in {req[r].userId, req'[r].userId}
    \/ \E t \in RetryReqs :
          retry'[t] # retry[t] /\ u \in {retry[t].userId, retry'[t].userId}
    \/ \E e \in EquipReqs :
          equip'[e] # equip[e] /\ u \in {equip[e].userId, equip'[e].userId}
    \/ \E v \in UseReqs :
          use'[v] # use[v] /\ u \in {use[v].userId, use'[v].userId}

\* The step is a report of the delivery worker, which is no request.
WorkerStep ==
    /\ fulfillments' # fulfillments
    /\ UNCHANGED <<req, retry, equip, use>>

\* C40: what is stored for an account changes only in steps of that
\* account's own requests (and in its registration and in reports of the
\* delivery worker); a retry that names an order of another account and an
\* equip, unequip, activate or delete that names a profile of another
\* account are rejected as not found.
AccountsAreIsolated ==
    [][/\ \A u \in Users :
            AccountState(u)' # AccountState(u) =>
                \/ ActsFor(u)
                \/ WorkerStep
                \/ u \in registered' \ registered
       /\ \A t \in RetryReqs :
            (/\ retry[t].pc = "idle"
             /\ retry'[t].pc # "idle"
             /\ \E i \in DOMAIN purchases :
                   /\ purchases[i].id = retry'[t].purchaseId
                   /\ purchases[i].userId # retry'[t].userId) =>
                /\ retry'[t].pc = "rejected"
                /\ retry'[t].kind = "NotFound"
       /\ \A e \in EquipReqs :
            (/\ equip[e].pc = "idle"
             /\ equip'[e].pc # "idle"
             /\ equip'[e].op # "createCharacterProfile"
             /\ \E p \in profiles :
                   /\ p.id = equip'[e].profileId
                   /\ p.userId # equip'[e].userId) =>
                /\ equip'[e].pc = "rejected"
                /\ equip'[e].kind = "NotFound"]_vars

\* Both accounts have an order and a profile, the one with the sword has it
\* equipped, and the other account's retry of the order with the failed card
\* stands rejected as not found.
C40Witness ==
    \E t \in RetryReqs, i \in DOMAIN purchases, k \in DOMAIN fulfillments :
        /\ retry[t].pc = "rejected"
        /\ retry[t].kind = "NotFound"
        /\ purchases[i].id = retry[t].purchaseId
        /\ purchases[i].userId # retry[t].userId
        /\ fulfillments[k].purchaseId = purchases[i].id
        /\ fulfillments[k].status = "FAILED"
        /\ Len(purchases) = 2
        /\ \A u \in Users : \E p \in profiles : p.userId = u
        /\ equipped # {}

====
